---- MODULE Spec2Model ----
(***************************************************************************)
(* State-machine model of the reflection pipeline of                       *)
(* backend/langgraph_agents_with_reflection.py                             *)
(* (class MessageCraftAgentsWithReflection).                               *)
(*                                                                         *)
(* One invocation of generate_messaging_playbook is modelled: the graph    *)
(* built by setup_graph runs one node per step, every node being one       *)
(* action.  Each Generation Client call (_call_llm_direct) has one of the  *)
(* outcomes "ok" (text that parses into the record the prompt asks for),   *)
(* "raise" (the provider call raises) or "unparsable" (text for which      *)
(* parse_json_response returns its failure record).                        *)
(*                                                                         *)
(* Scores are kept in tenths (85 stands for 8.5); means are kept as exact  *)
(* fractions [num, den] and compared by cross-multiplication.              *)
(* The diagnostic fields messages and current_step are not modelled.       *)
(*                                                                         *)
(* An "ok" answer follows the schema of its prompt (records, lists of      *)
(* strings, numeric scores).  With such answers the except branches of     *)
(* messaging_generator_agent, content_creator_agent,                       *)
(* reflection_orchestrator_agent and final_assembly_agent cannot be        *)
(* entered (every statement of their try blocks succeeds), so the actions  *)
(* carry the try branch only.                                              *)
(*                                                                         *)
(* execs, reports, faults and all_raised are history variables: they       *)
(* record what ran and are read by no action except the fault budget.      *)
(*                                                                         *)
(* Six further specifications share the module, each over its own         *)
(* variables while the others rest at their initial values:                *)
(*   SessionSpec - two invocations started on one instance, interleaved    *)
(*                 at every await, and the rows the tracker receives;      *)
(*   PairSpec    - one run told twice on the same Generation Client        *)
(*                 outcomes, with and without failing tracker calls;       *)
(*   ParserSpec  - parse_json_response, _clean_and_fix_json,               *)
(*                 _is_valid_parsed_response and _is_content_insufficient  *)
(*                 applied to bounded sets of texts and records, the text  *)
(*                 functions computed character by character;              *)
(*   BasicSpec   - one invocation of the basic pipeline of                 *)
(*                 backend/langgraph_agents.py (class MessageCraftAgents); *)
(*   StageSpec   - positioning_analysis_agent applied to the records the   *)
(*                 parser can return for its two calls;                    *)
(*   ApiSpec     - the requests of one user to generate_playbook_endpoint  *)
(*                 of backend/production_api.py and the background tasks   *)
(*                 it schedules.                                           *)
(***************************************************************************)
EXTENDS Integers, Sequences, FiniteSets, TLC

(* ---------------------------------------------------------------- bounds *)
\* largest max_reflection_cycles the constructor is given
MaxCycles == 3
\* largest number of failing Generation Client calls in one invocation
MaxFaults == 2

(* ------------------------------------------------------------- constants *)
\* target_quality = 9.5 in should_continue_reflection
TargetQuality == 95
\* "overall_quality_score": "8.5" of the fallback review and of the default
FallbackOverall == 85
\* the ten dimension keys read by should_continue_reflection
NumDimensions == 10
\* marker of a key the model's answer does not contain
Absent == -1

\* quality_threshold values the constructor is given (8.0 default, 10.0)
Thresholds == {80, 100}

Outcome == {"ok", "raise", "unparsable"}
TextOutcome == {"ok", "raise"}

None == [kind |-> "None"]
IsNone(x) == x.kind = "None"

Fault(o) == IF o = "ok" THEN 0 ELSE 1

(* ------------------------------------------------------------ arithmetic *)
Rat(n, d) == [num |-> n, den |-> d]
RatLess(a, b) == a.num * b.den < b.num * a.den
RatMax(a, b) == IF RatLess(a, b) THEN b ELSE a

RECURSIVE SumSeq(_)
SumSeq(s) == IF s = <<>> THEN 0 ELSE Head(s) + SumSeq(Tail(s))

RECURSIVE FilterSeq(_, _)
\* the elements of s strictly greater than lo, in order
FilterSeq(s, lo) ==
    IF s = <<>> THEN <<>>
    ELSE IF Head(s) > lo THEN <<Head(s)>> \o FilterSeq(Tail(s), lo)
         ELSE FilterSeq(Tail(s), lo)

AllDims(v) == [i \in 1..NumDimensions |-> v]

(* --------------------------------------------- answers of the Quality LLM *)
\* premium_quality_scores (one entry per dimension key, Absent when the key
\* is missing) and the aggregate the model reports itself
ScoreProfiles ==
    { [scores |-> AllDims(10),  reported |-> Absent],
      [scores |-> AllDims(100), reported |-> Absent],
      [scores |-> AllDims(95),  reported |-> 60],
      [scores |-> AllDims(70),  reported |-> 90],
      [scores |-> [i \in 1..NumDimensions |-> IF i = 1 THEN 90 ELSE 0],
       reported |-> Absent],
      [scores |-> AllDims(Absent), reported |-> 70],
      [scores |-> AllDims(Absent), reported |-> Absent] }

\* the premium fallback review of quality_reviewer_agent
FallbackScores == <<85, 80, 85, 90, 90, 85, 80, 80, 90, 85>>

FallbackReview ==
    [kind |-> "fallback",
     premium_quality_scores |-> FallbackScores,
     overall_quality_score |-> Rat(FallbackOverall, 1)]

\* the aggregate the model reported, 0 when it reported none
Reported(p) == IF p.reported = Absent THEN 0 ELSE p.reported

\* variant: the higher of the model's aggregate and the mean is stored
OverallScore_KeepingHigher(p) ==
    LET present == FilterSeq(p.scores, Absent)
    IN IF present # <<>>
       THEN RatMax(Rat(Reported(p), 1), Rat(SumSeq(present), Len(present)))
       ELSE IF Reported(p) # 0 THEN Rat(p.reported, 1)
            ELSE Rat(FallbackOverall, 1)

\* overall_quality_score as quality_reviewer_agent leaves it: the mean of the
\* supplied dimension scores, else the model's aggregate, else "8.5"
OverallScore(p) ==
    LET present == FilterSeq(p.scores, Absent)
    IN IF present # <<>> THEN Rat(SumSeq(present), Len(present))
       ELSE IF Reported(p) # 0 THEN Rat(p.reported, 1)
            ELSE Rat(FallbackOverall, 1)

\* quality_reviewer_agent, success path: the review that is stored; reported
\* keeps the aggregate of the model's answer, which the stored record has
\* lost when the mean replaced it
ScoredReview(p) ==
    [kind |-> "scored",
     premium_quality_scores |-> p.scores,
     overall_quality_score |-> OverallScore(p),
     reported |-> p.reported]

(* ------------------------------------------------------------- variables *)
VARIABLES
    pc,                          \* node to run next / position of the invocation
    self_quality_threshold,      \* self.quality_threshold
    self_max_reflection_cycles,  \* self.max_reflection_cycles
    state,                       \* the MessagingState record threaded through
    result,                      \* what generate_messaging_playbook returned
    escaped,                     \* stage whose exception left the stage function
    faults,                      \* failing Generation Client calls so far
    execs,                       \* executions of every graph node so far
    reports,                     \* tracker reports of the latest node execution
    all_raised,                  \* stages whose every Generation Client call raised
    calls,                       \* Generation Client calls of the invocation so far
    attempts                     \* calls the latest node made for one output field

\* two invocations on one instance (session isolation)
VARIABLES
    self_current_session_id,     \* self.current_session_id of the instance
    inv_at,                      \* await point each invocation stands at
    tracker_rows                 \* rows the progress tracker was sent

\* one run told twice, with and without a failing progress tracker
VARIABLES
    run_quiet,                   \* the run whose tracker calls all succeed
    run_noisy,                   \* the same run with failing tracker calls
    dropped,                     \* tracker calls that failed in run_noisy
    pair_at                      \* stage the two runs execute next

\* calls of the response parser and of the content checks
VARIABLES
    p_pc,                        \* which call was made last
    p_text,                      \* the response text handed to the parser
    p_content,                   \* the record handed to the content check
    p_out                        \* what the calls returned

\* one invocation of the basic pipeline (langgraph_agents.py)
VARIABLES
    b_pc,                        \* node of the basic graph to run next
    b_state,                     \* its MessagingState
    b_execs,                     \* the nodes executed so far, in order
    b_result                     \* what its generate_messaging_playbook returned

\* one stage applied to what the parser returned
VARIABLES
    g_pc,                        \* whether the stage has run
    g_primary,                   \* outcome of the primary call and parse
    g_adaptive,                  \* outcome of the adaptive call and parse
    g_stored                     \* what the stage left in its state field

\* requests to the generation endpoint and their background tasks
VARIABLES
    a_response,                  \* HTTP status of the last response
    a_production,                \* settings.IS_PRODUCTION
    a_user,                      \* the user's row: credits, free_kits_used
    a_sessions,                  \* the rows of user_sessions, oldest first
    a_requests,                  \* requests handled so far
    a_debits,                    \* times use_kit_generation reported success
    a_scheduled                  \* background tasks scheduled so far

sessionVars == <<self_current_session_id, inv_at, tracker_rows>>
pairVars == <<run_quiet, run_noisy, dropped, pair_at>>
parserVars == <<p_pc, p_text, p_content, p_out>>
basicVars == <<b_pc, b_state, b_execs, b_result>>
stageVars == <<g_pc, g_primary, g_adaptive, g_stored>>
apiVars == <<a_response, a_production, a_user, a_sessions, a_requests,
             a_debits, a_scheduled>>

\* what the pipeline actions leave alone
aside == <<sessionVars, pairVars, parserVars, basicVars, stageVars,
           apiVars>>

pipelineVars == <<pc, self_quality_threshold, self_max_reflection_cycles,
                  state, result, escaped, faults, execs, reports, all_raised,
                  calls, attempts>>

vars == <<pipelineVars, aside>>

Nodes == {"business_discovery", "competitor_research", "positioning_analysis",
          "trust_building", "emotional_intelligence", "social_proof_generator",
          "messaging_generator", "content_creator", "quality_reviewer",
          "reflection_orchestrator", "critique_agent", "refinement_agent",
          "meta_reviewer", "final_assembly"}

\* initial_state of generate_messaging_playbook
InitialState ==
    [business_input |-> "description",
     business_profile |-> "None",
     competitor_analysis |-> "None",
     positioning_strategy |-> "None",
     trust_building_analysis |-> "None",
     emotional_intelligence_analysis |-> "None",
     social_proof_analysis |-> "None",
     messaging_framework |-> None,
     content_assets |-> None,
     quality_review |-> None,
     meta_review |-> "None",
     final_output |-> None,
     reflection_cycle |-> 0,
     max_reflection_cycles |-> self_max_reflection_cycles,
     needs_refinement |-> FALSE,
     quality_threshold |-> self_quality_threshold,
     critique_points |-> <<>>,
     reflection_history |-> <<>>]

\* the two invocations that share an instance, and their session ids
Invocations == {1, 2}
SessionIds == <<"s1", "s2">>

\* no invocation started: self.current_session_id = None, nothing reported
SessionIdle ==
    /\ self_current_session_id = "None"
    /\ inv_at = [i \in Invocations |-> 0]
    /\ tracker_rows = {}

\* a run that has executed no stage yet
NewRun == [fields |-> <<>>, raised |-> FALSE]

PairIdle ==
    /\ run_quiet = NewRun
    /\ run_noisy = NewRun
    /\ dropped = 0
    /\ pair_at = 1

\* JSON null / Python None as a parsed value
NoVal == [t |-> "null", s |-> <<>>, m |-> <<>>]

\* _clean_and_fix_json returning None
NoText == [found |-> FALSE, text |-> <<>>]

\* what the parser calls have returned before any was made
NoOutput ==
    [parsed |-> NoVal, valid |-> FALSE, entered_repair |-> FALSE,
     repair_parses |-> FALSE, direct_ok |-> FALSE, direct |-> NoVal,
     fixed |-> NoText, reparsed_ok |-> FALSE, reparsed |-> NoVal,
     insufficient |-> FALSE]

\* no response text
NoResponse == [body |-> <<>>, fence |-> "none"]

\* a value handed to the content check that is not a dict
NotADict == [is_dict |-> FALSE, fields |-> <<>>]

ParserIdle ==
    /\ p_pc = "unused"
    /\ p_text = NoResponse
    /\ p_content = NotADict
    /\ p_out = NoOutput

\* initial_state of MessageCraftAgents.generate_messaging_playbook; competitors
\* stands for business_profile["competitors"] once there is a profile
BasicInitialState ==
    [business_profile |-> "None",
     competitors |-> "None",
     competitor_analysis |-> "None",
     positioning_strategy |-> "None",
     messaging_framework |-> "None",
     content_assets |-> "None",
     quality_review |-> "None",
     final_output |-> None]

\* the basic pipeline not invoked
BasicIdle ==
    /\ b_pc = "idle"
    /\ b_state = BasicInitialState
    /\ b_execs = <<>>
    /\ b_result = None

\* a call that was not made, or that raised
NoReply == [raised |-> TRUE, content |-> NotADict]

\* no stage applied to parser results
StageIdle ==
    /\ g_pc = "unused"
    /\ g_primary = NoReply
    /\ g_adaptive = NoReply
    /\ g_stored = NotADict

\* no request made
ApiIdle ==
    /\ a_response = "unused"
    /\ a_production = FALSE
    /\ a_user = [credits |-> 0, free_kits_used |-> 0]
    /\ a_sessions = <<>>
    /\ a_requests = 0
    /\ a_debits = 0
    /\ a_scheduled = 0

\* the instance with a given configuration and no invocation started
PipelineIdle(threshold, max_cycles) ==
    /\ pc = "idle"
    /\ self_quality_threshold = threshold
    /\ self_max_reflection_cycles = max_cycles
    /\ state = InitialState
    /\ result = None
    /\ escaped = "none"
    /\ faults = 0
    /\ execs = [n \in Nodes |-> 0]
    /\ reports = <<>>
    /\ all_raised = {}
    /\ calls = 0
    /\ attempts = 0

\* __init__: the instance with its configuration, no invocation started
Init ==
    /\ \E threshold \in Thresholds, max_cycles \in 0..MaxCycles :
           PipelineIdle(threshold, max_cycles)
    /\ SessionIdle
    /\ PairIdle
    /\ ParserIdle
    /\ BasicIdle
    /\ StageIdle
    /\ ApiIdle

Config == <<self_quality_threshold, self_max_reflection_cycles>>

\* bookkeeping shared by every node: count the execution, record its reports
Ran(node, reps, used, every_call_raised) ==
    /\ faults + used <= MaxFaults
    /\ faults' = faults + used
    /\ execs' = [execs EXCEPT ![node] = @ + 1]
    /\ reports' = reps
    /\ all_raised' = IF every_call_raised THEN all_raised \cup {node}
                     ELSE all_raised

\* variant: a failed adaptive prompt is tried once more
Attempts_Retrying(primary_failed) == IF primary_failed THEN 3 ELSE 1

\* Generation Client calls a two-tier stage makes for its field: the primary
\* prompt and, when the primary path failed, the one adaptive prompt
Attempts(primary_failed) == IF primary_failed THEN 2 ELSE 1

\* bookkeeping of the calls of a node: per_field for one output field,
\* total over all its fields
Called(per_field, total) ==
    /\ attempts' = per_field
    /\ calls' = calls + total

\* generate_messaging_playbook up to app.ainvoke(initial_state)
Invoke ==
    /\ pc = "idle"
    /\ state' = InitialState
    /\ pc' = "business_discovery"
    /\ self_current_session_id' = SessionIds[1]
    /\ UNCHANGED <<Config, inv_at, tracker_rows, pairVars, parserVars,
                   basicVars, stageVars, apiVars>>
    /\ UNCHANGED <<result, escaped, faults, execs, reports, all_raised,
                   calls, attempts>>

\* second tier of a stage: adaptive prompt, then the static placeholder
FallbackField(o2) == IF o2 = "ok" THEN "adaptive" ELSE "placeholder"

\* the reflection fields business_discovery_agent re-initialises on success
ReflectionReset(s) ==
    [s EXCEPT !.reflection_cycle = 0,
              !.max_reflection_cycles = self_max_reflection_cycles,
              !.needs_refinement = FALSE,
              !.quality_threshold = self_quality_threshold,
              !.critique_points = <<>>,
              !.reflection_history = <<>>]

business_discovery_agent ==
    /\ pc = "business_discovery"
    /\ \E o1, o2 \in Outcome :
         /\ (o1 # "raise") => o2 = "ok"
         /\ IF o1 # "raise"
            THEN /\ state' = [ReflectionReset(state) EXCEPT
                        !.business_profile =
                            IF o1 = "ok" THEN "primary" ELSE "parse_error"]
                 /\ Called(1, 1)
                 /\ Ran("business_discovery", <<"in_progress">>, Fault(o1),
                        FALSE)
            ELSE /\ state' = [state EXCEPT
                        !.business_profile = FallbackField(o2)]
                 /\ Called(Attempts(TRUE), Attempts(TRUE))
                 /\ Ran("business_discovery", <<"in_progress", "completed">>,
                        Fault(o1) + Fault(o2), o2 = "raise")
    /\ pc' = "competitor_research"
    /\ UNCHANGED <<Config, aside, result, escaped>>

\* a two-tier stage that stores whatever the primary parse returned
\* (competitor_research, positioning_analysis, emotional_resonance)
TwoTierField(o1, o2) ==
    IF o1 = "ok" THEN "primary"
    ELSE IF o1 = "unparsable" THEN "parse_error"
    ELSE FallbackField(o2)

\* tracker reports of such a stage
TwoTierReports(primaryFailed, o2) ==
    IF ~primaryFailed THEN <<"in_progress", "completed">>
    ELSE IF o2 = "ok" THEN <<"in_progress", "failed", "completed">>
    ELSE <<"in_progress", "failed", "failed">>

competitor_research_agent ==
    /\ pc = "competitor_research"
    /\ \E o1, o2 \in Outcome :
         /\ (o1 # "raise") => o2 = "ok"
         /\ state' = [state EXCEPT
                !.competitor_analysis = TwoTierField(o1, o2)]
         /\ Called(Attempts(o1 = "raise"), Attempts(o1 = "raise"))
         /\ Ran("competitor_research", TwoTierReports(o1 = "raise", o2),
                Fault(o1) + Fault(o2), o1 = "raise" /\ o2 = "raise")
    /\ pc' = "positioning_analysis"
    /\ UNCHANGED <<Config, aside, result, escaped>>

positioning_analysis_agent ==
    /\ pc = "positioning_analysis"
    /\ \E o1, o2 \in Outcome :
         /\ (o1 # "raise") => o2 = "ok"
         /\ state' = [state EXCEPT
                !.positioning_strategy = TwoTierField(o1, o2)]
         /\ Called(Attempts(o1 = "raise"), Attempts(o1 = "raise"))
         /\ Ran("positioning_analysis", TwoTierReports(o1 = "raise", o2),
                Fault(o1) + Fault(o2), o1 = "raise" /\ o2 = "raise")
    /\ pc' = "trust_building"
    /\ UNCHANGED <<Config, aside, result, escaped>>

\* adaptive_trust_building_agent.  After a failed primary call the handler
\* stores the fallback analysis and then makes a last tracker call whose
\* argument formats trust_fallback_error, a name that is unbound there on
\* both paths (never bound when the adaptive call succeeded, deleted at the
\* end of its except clause otherwise): UnboundLocalError leaves the stage
\* function from inside its except handler.

adaptive_trust_building_agent ==
    /\ pc = "trust_building"
    /\ \E o1, o2 \in Outcome :
         /\ (o1 # "raise") => o2 = "ok"
         /\ IF o1 # "raise"
            THEN /\ state' = [state EXCEPT !.trust_building_analysis =
                        IF o1 = "ok" THEN "primary" ELSE "parse_error"]
                 /\ Called(Attempts(FALSE), Attempts(FALSE))
                 /\ Ran("trust_building", <<"in_progress", "completed">>,
                        Fault(o1), FALSE)
                 /\ pc' = "emotional_intelligence"
                 /\ escaped' = escaped
            ELSE /\ state' = [state EXCEPT !.trust_building_analysis =
                        FallbackField(o2)]
                 /\ Called(Attempts(TRUE), Attempts(TRUE))
                 /\ Ran("trust_building",
                        IF o2 = "ok"
                        THEN <<"in_progress", "failed", "completed">>
                        ELSE <<"in_progress", "failed">>,
                        Fault(o1) + Fault(o2), o2 = "raise")
                 /\ pc' = "raised"
                 /\ escaped' = "trust_building"
    /\ UNCHANGED <<Config, aside, result>>

emotional_resonance_agent ==
    /\ pc = "emotional_intelligence"
    /\ \E o1, o2 \in Outcome :
         /\ (o1 # "raise") => o2 = "ok"
         /\ state' = [state EXCEPT
                !.emotional_intelligence_analysis = TwoTierField(o1, o2)]
         /\ Called(Attempts(o1 = "raise"), Attempts(o1 = "raise"))
         /\ Ran("emotional_intelligence", TwoTierReports(o1 = "raise", o2),
                Fault(o1) + Fault(o2), o1 = "raise" /\ o2 = "raise")
    /\ pc' = "social_proof_generator"
    /\ UNCHANGED <<Config, aside, result, escaped>>

\* advanced_social_proof_agent checks _is_valid_parsed_response on the
\* primary answer, so the parser's failure record takes the fallback path
advanced_social_proof_agent ==
    /\ pc = "social_proof_generator"
    /\ \E o1, o2 \in Outcome :
         /\ (o1 = "ok") => o2 = "ok"
         /\ state' = [state EXCEPT !.social_proof_analysis =
                IF o1 = "ok" THEN "primary" ELSE FallbackField(o2)]
         /\ Called(Attempts(o1 # "ok"), Attempts(o1 # "ok"))
         /\ Ran("social_proof_generator", TwoTierReports(o1 # "ok", o2),
                Fault(o1) + Fault(o2), o1 = "raise" /\ o2 = "raise")
    /\ pc' = "messaging_generator"
    /\ UNCHANGED <<Config, aside, result, escaped>>

\* variant: the static text is used whatever the sub-call returned
Component_AlwaysStatic(o) == "fallback"

\* one component of a step-by-step stage: the model's text or its static text
Component(o) == IF o = "ok" THEN "generated" ELSE "fallback"

\* messaging_generator_agent with _generate_messaging_framework_reliable
messaging_generator_agent ==
    /\ pc = "messaging_generator"
    /\ \E o1, o2, o3, o4 \in TextOutcome :
         /\ state' = [state EXCEPT !.messaging_framework =
                [kind |-> "framework",
                 value_proposition |-> Component(o1),
                 elevator_pitch |-> Component(o2),
                 tagline_options |-> Component(o3),
                 differentiators |-> Component(o4)]]
         /\ Called(1, 4)
         /\ Ran("messaging_generator", <<"in_progress", "completed">>,
                Fault(o1) + Fault(o2) + Fault(o3) + Fault(o4),
                {o1, o2, o3, o4} = {"raise"})
    /\ pc' = "content_creator"
    /\ UNCHANGED <<Config, aside, result, escaped>>

\* content_creator_agent with _generate_content_assets_reliable
content_creator_agent ==
    /\ pc = "content_creator"
    /\ \E o1, o2, o3, o4 \in TextOutcome :
         /\ state' = [state EXCEPT !.content_assets =
                [kind |-> "assets",
                 website_headlines |-> Component(o1),
                 linkedin_posts |-> Component(o2),
                 email_templates |-> Component(o3),
                 sales_one_liners |-> Component(o4)]]
         /\ Called(1, 4)
         /\ Ran("content_creator", <<"in_progress", "completed">>,
                Fault(o1) + Fault(o2) + Fault(o3) + Fault(o4),
                {o1, o2, o3, o4} = {"raise"})
    /\ pc' = "quality_reviewer"
    /\ UNCHANGED <<Config, aside, result, escaped>>

\* variant: a score equal to the threshold still asks for refinement
NeedsRefinement_AtMost(overall, threshold) ==
    ~RatLess(Rat(threshold, 1), overall)

\* overall_score < self.quality_threshold (quality reviewer and orchestrator)
NeedsRefinement(overall, threshold) == RatLess(overall, Rat(threshold, 1))

\* quality_reviewer_agent
quality_reviewer_agent ==
    /\ pc = "quality_reviewer"
    /\ \/ \E p \in ScoreProfiles :
            LET review == ScoredReview(p) IN
            /\ state' = [state EXCEPT
                   !.quality_review = review,
                   !.needs_refinement =
                       NeedsRefinement(review.overall_quality_score,
                                       self_quality_threshold)]
            /\ Called(1, 1)
            /\ Ran("quality_reviewer", <<"in_progress", "completed">>, 0,
                   FALSE)
       \/ \E o \in Outcome \ {"ok"} :
            /\ state' = [state EXCEPT !.quality_review = FallbackReview,
                                      !.needs_refinement = TRUE]
            /\ Called(1, 1)
            /\ Ran("quality_reviewer", <<"in_progress", "failed">>, 1,
                   o = "raise")
    /\ pc' = "reflection_orchestrator"
    /\ UNCHANGED <<Config, aside, result, escaped>>

\* float(premium_quality_scores.get(key, 0)) for the ten keys
DimensionScores(review) ==
    [i \in 1..NumDimensions |->
        IF review.premium_quality_scores[i] = Absent
        THEN 0 ELSE review.premium_quality_scores[i]]

\* average_dimension_score: mean of the scores > 0, 0 when there is none
AverageDimensionScore(review) ==
    LET valid == FilterSeq(DimensionScores(review), 0)
    IN IF valid # <<>> THEN Rat(SumSeq(valid), Len(valid)) ELSE Rat(0, 1)

\* current_quality = max(overall_quality_score, average_dimension_score)
CurrentQuality(review) ==
    RatMax(review.overall_quality_score, AverageDimensionScore(review))

\* variant: the edge does not read needs_refinement
should_continue_reflection_NoFlag(s) ==
    IF RatLess(CurrentQuality(s.quality_review), Rat(TargetQuality, 1))
       /\ s.reflection_cycle < self_max_reflection_cycles
    THEN "continue_reflection"
    ELSE "finalize"

\* should_continue_reflection, the conditional edge after the orchestrator
should_continue_reflection(s) ==
    LET current_quality == CurrentQuality(s.quality_review)
        quality_needs_improvement ==
            RatLess(current_quality, Rat(TargetQuality, 1))
        cycles_remaining == s.reflection_cycle < self_max_reflection_cycles
    IN IF quality_needs_improvement /\ cycles_remaining /\ s.needs_refinement
       THEN "continue_reflection"
       ELSE "finalize"

\* the edge map of add_conditional_edges
Route(decision) ==
    IF decision = "continue_reflection" THEN "critique_agent"
    ELSE "final_assembly"

\* variant: the orchestrator does not look at the cap
CyclesRemain_Unchecked(reflection_cycle, max_cycles) == TRUE

\* reflection_cycle < max_cycles in reflection_orchestrator_agent
CyclesRemain(reflection_cycle, max_cycles) == reflection_cycle < max_cycles

\* variant: the orchestrator forgets to count the cycle
NextCycle_Stuck(reflection_cycle) == reflection_cycle

\* state["reflection_cycle"] = reflection_cycle + 1
NextCycle(reflection_cycle) == reflection_cycle + 1

\* reflection_orchestrator_agent followed by its conditional edge
reflection_orchestrator_agent ==
    /\ pc = "reflection_orchestrator"
    /\ LET needs == NeedsRefinement(state.quality_review.overall_quality_score,
                                    self_quality_threshold)
           loop == needs /\ CyclesRemain(state.reflection_cycle,
                                         state.max_reflection_cycles)
           after ==
             IF loop
             THEN [state EXCEPT
                     !.reflection_cycle = NextCycle(state.reflection_cycle),
                     !.needs_refinement = TRUE]
             ELSE [state EXCEPT !.needs_refinement = FALSE]
       IN /\ state' = after
          /\ Called(0, 0)
          /\ Ran("reflection_orchestrator",
                 IF loop THEN <<"in_progress">>
                 ELSE <<"in_progress", "completed">>, 0, FALSE)
          /\ pc' = Route(should_continue_reflection(after))
    /\ UNCHANGED <<Config, aside, result, escaped>>

\* variant: the critique replaces the list instead of joining it
AppendCritique_Overwriting(critique_points, critique) == <<critique>>

\* state["critique_points"].append(critique)
AppendCritique(critique_points, critique) == Append(critique_points, critique)

\* critique_agent: the parsed critique (the parser's failure record
\* included) or the fallback critique is appended
critique_agent ==
    /\ pc = "critique_agent"
    /\ \E o \in Outcome :
         /\ state' = [state EXCEPT !.critique_points =
                AppendCritique(@, IF o = "ok" THEN "primary"
                                  ELSE IF o = "unparsable" THEN "parse_error"
                                  ELSE "fallback")]
         /\ Called(1, 1)
         /\ Ran("critique_agent", <<>>, Fault(o), o = "raise")
    /\ pc' = "refinement_agent"
    /\ UNCHANGED <<Config, aside, result, escaped>>

\* variant: the refinement step also replaces the review it refines
PrepareRefinement_Rescoring(s) ==
    [s EXCEPT !.reflection_history =
           Append(@, [cycle |-> s.reflection_cycle,
                      critique |-> s.critique_points[Len(s.critique_points)]]),
              !.quality_review = FallbackReview]

\* what refinement_agent writes: the entry it appends to reflection_history
\* (reflection_feedback, refinement_areas and improvement_suggestions are
\* read by no node)
PrepareRefinement(s) ==
    [s EXCEPT !.reflection_history =
           Append(@, [cycle |-> s.reflection_cycle,
                      critique |-> s.critique_points[Len(s.critique_points)]])]

\* refinement_agent: no Generation Client call
refinement_agent ==
    /\ pc = "refinement_agent"
    /\ state' = PrepareRefinement(state)
    /\ Called(0, 0)
    /\ Ran("refinement_agent", <<>>, 0, FALSE)
    /\ pc' = "meta_reviewer"
    /\ UNCHANGED <<Config, aside, result, escaped>>

\* meta_reviewer_agent: cont is recommendations.continue_reflection
meta_reviewer_agent ==
    /\ pc = "meta_reviewer"
    /\ \/ \E cont \in BOOLEAN :
            /\ state' = [state EXCEPT
                   !.meta_review = "primary",
                   !.needs_refinement = IF cont THEN @ ELSE FALSE]
            /\ Called(1, 1)
            /\ Ran("meta_reviewer", <<>>, 0, FALSE)
       \/ \E o \in Outcome \ {"ok"} :
            /\ state' = [state EXCEPT !.meta_review =
                   IF o = "unparsable" THEN "parse_error" ELSE "fallback"]
            /\ Called(1, 1)
            /\ Ran("meta_reviewer", <<>>, 1, o = "raise")
    /\ pc' = "reflection_orchestrator"
    /\ UNCHANGED <<Config, aside, result, escaped>>

\* the record final_assembly_agent assembles
FinalOutput(s) ==
    [kind |-> "final_output",
     business_profile |-> s.business_profile,
     competitor_analysis |-> s.competitor_analysis,
     positioning_strategy |-> s.positioning_strategy,
     messaging_framework |-> s.messaging_framework,
     content_assets |-> s.content_assets,
     quality_review |-> s.quality_review,
     status |-> "completed",
     reflection_metadata |->
        [total_reflection_cycles |-> s.reflection_cycle,
         final_quality_score |-> s.quality_review.overall_quality_score,
         quality_threshold |-> s.quality_threshold,
         reflection_history |-> s.reflection_history,
         improvement_achieved |-> s.reflection_cycle > 0,
         meta_review |-> s.meta_review,
         critique_points |-> s.critique_points]]

\* the record of the except branch of final_assembly_agent
FallbackOutput(s) ==
    [kind |-> "fallback_output",
     messaging_framework |-> s.messaging_framework,
     content_assets |-> s.content_assets,
     business_profile |-> s.business_profile,
     error |-> TRUE]

\* assembling raises when quality_review is still None (None has no get)
AssemblyRaises(s) == IsNone(s.quality_review)

\* what final_assembly_agent stores in final_output
Assembled(s) ==
    IF AssemblyRaises(s) THEN FallbackOutput(s) ELSE FinalOutput(s)

final_assembly_agent ==
    /\ pc = "final_assembly"
    /\ state' = [state EXCEPT !.final_output = Assembled(state)]
    /\ Called(0, 0)
    /\ Ran("final_assembly", <<"in_progress", "completed">>, 0, FALSE)
    /\ pc' = "END"
    /\ UNCHANGED <<Config, aside, result, escaped>>

\* the record of the except clause of generate_messaging_playbook
ErrorRecord == [kind |-> "error_record", status |-> "failed", error |-> TRUE]

\* variant: no except clause around the run, the exception reaches the caller
PlaybookReturn_NoExcept(run_raised, final_output) ==
    IF run_raised THEN [kind |-> "propagated"] ELSE final_output

\* what generate_messaging_playbook returns once app.ainvoke has returned
\* the final state or raised
PlaybookReturn(run_raised, final_output) ==
    IF run_raised \/ IsNone(final_output) THEN ErrorRecord ELSE final_output

\* generate_messaging_playbook after app.ainvoke
Complete ==
    /\ pc \in {"END", "raised"}
    /\ result' = PlaybookReturn(pc = "raised", state.final_output)
    /\ pc' = "returned"
    /\ UNCHANGED <<Config, aside, state, escaped, faults, execs, reports,
                   all_raised, calls, attempts>>

Next ==
    \/ Invoke
    \/ business_discovery_agent
    \/ competitor_research_agent
    \/ positioning_analysis_agent
    \/ adaptive_trust_building_agent
    \/ emotional_resonance_agent
    \/ advanced_social_proof_agent
    \/ messaging_generator_agent
    \/ content_creator_agent
    \/ quality_reviewer_agent
    \/ reflection_orchestrator_agent
    \/ critique_agent
    \/ refinement_agent
    \/ meta_reviewer_agent
    \/ final_assembly_agent
    \/ Complete

Spec == Init /\ [][Next]_vars

(* ------------------------------------ two invocations on one instance *)
\* The awaits of an invocation in which no call fails and no reflection
\* cycle runs, in program order: every _track_stage_progress call and every
\* Generation Client call is a point where the other invocation can run.
AwaitPoints ==
    << <<"business_discovery", "in_progress">>,
       <<"business_discovery", "llm">>,
       <<"competitor_research", "in_progress">>,
       <<"competitor_research", "llm">>,
       <<"competitor_research", "completed">>,
       <<"positioning_analysis", "in_progress">>,
       <<"positioning_analysis", "llm">>,
       <<"positioning_analysis", "completed">>,
       <<"trust_building", "in_progress">>,
       <<"trust_building", "llm">>,
       <<"trust_building", "completed">>,
       <<"emotional_resonance", "in_progress">>,
       <<"emotional_resonance", "llm">>,
       <<"emotional_resonance", "completed">>,
       <<"social_proof", "in_progress">>,
       <<"social_proof", "llm">>,
       <<"social_proof", "completed">>,
       <<"messaging_generator", "in_progress">>,
       <<"messaging_generator", "llm">>,
       <<"messaging_generator", "llm">>,
       <<"messaging_generator", "llm">>,
       <<"messaging_generator", "llm">>,
       <<"messaging_generator", "completed">>,
       <<"content_creator", "in_progress">>,
       <<"content_creator", "llm">>,
       <<"content_creator", "llm">>,
       <<"content_creator", "llm">>,
       <<"content_creator", "llm">>,
       <<"content_creator", "completed">>,
       <<"quality_reviewer", "in_progress">>,
       <<"quality_reviewer", "llm">>,
       <<"quality_reviewer", "completed">>,
       <<"reflection_orchestrator", "in_progress">>,
       <<"reflection_orchestrator", "completed">>,
       <<"final_assembly", "in_progress">>,
       <<"final_assembly", "completed">> >>

\* generate_messaging_playbook(session_id = SessionIds[i]) up to its first
\* await: the session id is stored in the instance
StartInvocation(i) ==
    /\ inv_at[i] = 0
    /\ self_current_session_id' = SessionIds[i]
    /\ inv_at' = [inv_at EXCEPT ![i] = 1]
    /\ UNCHANGED <<tracker_rows, pipelineVars, apiVars, stageVars, pairVars, parserVars,
                   basicVars>>

\* _track_stage_progress called by invocation i: the row is keyed by the
\* instance's current_session_id; by records on whose behalf it was sent
TrackStage(i) ==
    /\ inv_at[i] \in 1..Len(AwaitPoints)
    /\ AwaitPoints[inv_at[i]][2] # "llm"
    /\ tracker_rows' =
          IF self_current_session_id # "None"
          THEN tracker_rows \cup
                  {[by |-> i, key |-> self_current_session_id]}
          ELSE tracker_rows
    /\ inv_at' = [inv_at EXCEPT ![i] = @ + 1]
    /\ UNCHANGED <<self_current_session_id, pipelineVars, apiVars, stageVars, pairVars,
                   parserVars, basicVars>>

\* a Generation Client call of invocation i returns
LlmReturns(i) ==
    /\ inv_at[i] \in 1..Len(AwaitPoints)
    /\ AwaitPoints[inv_at[i]][2] = "llm"
    /\ inv_at' = [inv_at EXCEPT ![i] = @ + 1]
    /\ UNCHANGED <<self_current_session_id, tracker_rows, pipelineVars, apiVars,
                   stageVars, pairVars, parserVars, basicVars>>

SessionInit ==
    /\ PipelineIdle(80, MaxCycles)
    /\ SessionIdle
    /\ PairIdle
    /\ ParserIdle
    /\ BasicIdle
    /\ StageIdle
    /\ ApiIdle

SessionNext ==
    \/ \E i \in Invocations : StartInvocation(i)
    \/ \E i \in Invocations : TrackStage(i)
    \/ \E i \in Invocations : LlmReturns(i)

SessionSpec == SessionInit /\ [][SessionNext]_vars

(* ------------------------- one run with and without a failing tracker *)
\* outcomes of the remote call behind db_manager.update_stage_status
RpcOutcome == {"ok", "raise"}

\* DatabaseManager.update_stage_status: the remote call inside try/except;
\* a failure is logged and the method returns
UpdateStageStatus(rpc) == IF rpc = "raise" THEN "logged" ELSE "stored"

\* variant: neither method catches, the failure reaches the stage
TrackStageProgress_Propagating(rpc) ==
    IF rpc = "raise" THEN "raise" ELSE "stored"

\* _track_stage_progress: awaits update_stage_status inside try/except and
\* logs whatever it raises
TrackStageProgress(rpc) ==
    LET outcome == UpdateStageStatus(rpc)
    IN IF outcome = "raise" THEN "logged" ELSE outcome

\* the stages whose handler has the shape of competitor_research_agent
TrackedStages ==
    <<"competitor_research", "positioning_analysis", "emotional_resonance">>

AllStored == [k \in 1..3 |-> "ok"]

Aborted(run) == [run EXCEPT !.raised = TRUE]
Stored(run, stage, value) ==
    [run EXCEPT !.fields = Append(@, <<stage, value>>)]

\* competitor_research_agent on a run: o1, o2 are the outcomes of the
\* primary and the adaptive Generation Client call, t those of its tracker
\* calls in program order.  A tracker call outside the try block or inside
\* an except handler that raised would leave the stage function; one inside
\* a try block would divert to the handler.
TrackedStage(run, stage, o1, o2, t) ==
    IF run.raised THEN run
    ELSE IF TrackStageProgress(t[1]) = "raise" THEN Aborted(run)
    ELSE IF o1 # "raise"
    THEN IF TrackStageProgress(t[2]) = "raise"
         THEN Stored(run, stage, FallbackField(o2))
         ELSE Stored(run, stage,
                     IF o1 = "ok" THEN "primary" ELSE "parse_error")
    ELSE IF TrackStageProgress(t[2]) = "raise" THEN Aborted(run)
    ELSE IF TrackStageProgress(t[3]) = "raise"
         THEN Aborted(Stored(run, stage, "placeholder"))
         ELSE Stored(run, stage, FallbackField(o2))

\* tracker calls of the stage that failed
Dropped(o1, t) ==
    Cardinality({k \in 1..(IF o1 # "raise" THEN 2 ELSE 3) : t[k] = "raise"})

\* the next stage runs in both tellings of the run, on the same Generation
\* Client outcomes; only run_noisy sees tracker failures
PairedStage ==
    /\ pair_at <= Len(TrackedStages)
    /\ \E o1, o2 \in Outcome, t \in [1..3 -> RpcOutcome] :
         /\ (o1 # "raise") => (o2 = "ok" /\ t[3] = "ok")
         /\ run_quiet' = TrackedStage(run_quiet, TrackedStages[pair_at],
                                      o1, o2, AllStored)
         /\ run_noisy' = TrackedStage(run_noisy, TrackedStages[pair_at],
                                      o1, o2, t)
         /\ dropped' = dropped + Dropped(o1, t)
    /\ pair_at' = pair_at + 1
    /\ UNCHANGED <<pipelineVars, apiVars, stageVars, sessionVars, parserVars,
                   basicVars>>

PairInit ==
    /\ PipelineIdle(80, MaxCycles)
    /\ SessionIdle
    /\ PairIdle
    /\ ParserIdle
    /\ BasicIdle
    /\ StageIdle
    /\ ApiIdle

PairNext == PairedStage

PairSpec == PairInit /\ [][PairNext]_vars

(* ------------------------------------------------------ response parser *)
\* A text is a sequence of one-character strings.  The characters that
\* occur are the JSON punctuation, quote, backslash, blank, line break,
\* percent, backtick, a few digits and lower-case letters; escapes and
\* number forms that need other characters (\u, \b, \f, exponents, minus)
\* cannot occur and are not spelled out.
Q == "\""
BS == "\\"
NL == "\n"
\* the backtick, which cannot be written inside a TLA+ string
Tick == "tick"

\* response[:500]
RawLimit == 500

\* the least and the greatest element of a non-empty set of numbers
Least(S) == CHOOSE i \in S : \A j \in S : i <= j
Greatest(S) == CHOOSE i \in S : \A j \in S : i >= j

\* \s of the regular expressions and the characters str.strip removes
IsSpace(c) == c \in {" ", "\n", "\r", "\t", "\f"}

HasAt(s, i, pat) ==
    /\ i + Len(pat) - 1 <= Len(s)
    /\ SubSeq(s, i, i + Len(pat) - 1) = pat

RECURSIVE SkipSpace(_, _)
SkipSpace(s, i) ==
    IF i <= Len(s) /\ IsSpace(s[i]) THEN SkipSpace(s, i + 1) ELSE i

\* re.sub(pat + r'\s*', '', s), from index i on
RECURSIVE SubFence(_, _, _)
SubFence(s, pat, i) ==
    IF i > Len(s) THEN <<>>
    ELSE IF HasAt(s, i, pat)
         THEN SubFence(s, pat, SkipSpace(s, i + Len(pat)))
         ELSE <<s[i]>> \o SubFence(s, pat, i + 1)

Fence == <<Tick, Tick, Tick>>
FenceJson == Fence \o <<"j", "s", "o", "n">>

\* str.rstrip and str.strip
RStrip(s) ==
    LET solid == {i \in 1..Len(s) : ~IsSpace(s[i])}
    IN IF solid = {} THEN <<>> ELSE SubSeq(s, 1, Greatest(solid))

Strip(s) ==
    LET solid == {i \in 1..Len(s) : ~IsSpace(s[i])}
    IN IF solid = {} THEN <<>>
       ELSE SubSeq(s, Least(solid), Greatest(solid))

EndsWith(s, c) == s # <<>> /\ s[Len(s)] = c

(* json.loads *)
Digits == {"0", "1", "2", "3", "4", "5", "6", "7", "8", "9"}
JsonSpace(c) == c \in {" ", "\n", "\r", "\t"}

StrVal(chars) == [t |-> "str", s |-> chars, m |-> <<>>]
NumVal(chars) == [t |-> "num", s |-> chars, m |-> <<>>]
ObjVal(members) == [t |-> "obj", s |-> <<>>, m |-> members]
TrueVal == [t |-> "true", s |-> <<>>, m |-> <<>>]

Failed == [ok |-> FALSE, pos |-> 0, val |-> NoVal]
Parsed(v, next) == [ok |-> TRUE, pos |-> next, val |-> v]

RECURSIVE SkipJsonSpace(_, _)
SkipJsonSpace(s, i) ==
    IF i <= Len(s) /\ JsonSpace(s[i]) THEN SkipJsonSpace(s, i + 1) ELSE i

RECURSIVE SkipDigits(_, _)
SkipDigits(s, i) ==
    IF i <= Len(s) /\ s[i] \in Digits THEN SkipDigits(s, i + 1) ELSE i

\* the character an escape sequence stands for
Unescaped(c) ==
    CASE c = "n" -> "\n"
      [] c = "r" -> "\r"
      [] c = "t" -> "\t"
      [] OTHER   -> c

\* py_scanstring (strict): i is the next index inside the literal
RECURSIVE ScanString(_, _, _)
ScanString(s, i, acc) ==
    IF i > Len(s) THEN Failed
    ELSE IF s[i] = Q THEN Parsed(StrVal(acc), i + 1)
    ELSE IF s[i] = BS
         THEN IF i + 1 <= Len(s) /\ s[i + 1] \in {Q, BS, "/", "n", "r", "t"}
              THEN ScanString(s, i + 2, Append(acc, Unescaped(s[i + 1])))
              ELSE Failed
    ELSE IF s[i] \in {"\n", "\r", "\t", "\f"} THEN Failed
    ELSE ScanString(s, i + 1, Append(acc, s[i]))

\* NUMBER_RE at index i, where s[i] is a digit: integer part, then an
\* optional fraction
ScanNumber(s, i) ==
    LET int_end == IF s[i] = "0" THEN i + 1 ELSE SkipDigits(s, i)
        frac_end ==
            IF int_end <= Len(s) /\ s[int_end] = "."
               /\ SkipDigits(s, int_end + 1) > int_end + 1
            THEN SkipDigits(s, int_end + 1)
            ELSE int_end
    IN Parsed(NumVal(SubSeq(s, i, frac_end - 1)), frac_end)

\* dict assignment: the last value of a key wins
Put(members, key, value) ==
    [k \in (DOMAIN members) \cup {key} |->
        IF k = key THEN value ELSE members[k]]

RECURSIVE ScanValue(_, _)
RECURSIVE ScanMembers(_, _, _)

\* JSONObject after the opening brace
ScanObject(s, i) ==
    LET j == SkipJsonSpace(s, i)
    IN IF j > Len(s) THEN Failed
       ELSE IF s[j] = "}" THEN Parsed(ObjVal(<<>>), j + 1)
       ELSE ScanMembers(s, j, <<>>)

\* the members of an object from a key at index j on
ScanMembers(s, j, members) ==
    IF j > Len(s) \/ s[j] # Q THEN Failed
    ELSE LET key == ScanString(s, j + 1, <<>>)
         IN IF ~key.ok THEN Failed
            ELSE LET colon == SkipJsonSpace(s, key.pos)
                 IN IF colon > Len(s) \/ s[colon] # ":" THEN Failed
                    ELSE LET value ==
                                 ScanValue(s, SkipJsonSpace(s, colon + 1))
                         IN IF ~value.ok THEN Failed
                            ELSE LET e == SkipJsonSpace(s, value.pos)
                                     now == Put(members, key.val.s, value.val)
                                 IN IF e > Len(s) THEN Failed
                                    ELSE IF s[e] = "}"
                                         THEN Parsed(ObjVal(now), e + 1)
                                    ELSE IF s[e] = ","
                                         THEN ScanMembers(s,
                                                SkipJsonSpace(s, e + 1), now)
                                    ELSE Failed

\* scan_once
ScanValue(s, i) ==
    IF i > Len(s) THEN Failed
    ELSE IF s[i] = Q THEN ScanString(s, i + 1, <<>>)
    ELSE IF s[i] = "{" THEN ScanObject(s, i + 1)
    ELSE IF s[i] \in Digits THEN ScanNumber(s, i)
    ELSE Failed

\* json.loads: ok is FALSE where it raises JSONDecodeError
Loads(s) ==
    LET value == ScanValue(s, SkipJsonSpace(s, 1))
    IN IF value.ok /\ SkipJsonSpace(s, value.pos) = Len(s) + 1
       THEN [ok |-> TRUE, val |-> value.val]
       ELSE [ok |-> FALSE, val |-> NoVal]

(* _clean_and_fix_json *)
\* ord(char) >= 32 or char in '\n\r\t'
Kept(c) == c # "\f"

\* replace('\n', '\\n').replace('\r', '\\r').replace('\t', '\\t')
RECURSIVE EscapeBreaks(_, _)
EscapeBreaks(s, i) ==
    IF i > Len(s) THEN <<>>
    ELSE (CASE s[i] = "\n" -> <<BS, "n">>
            [] s[i] = "\r" -> <<BS, "r">>
            [] s[i] = "\t" -> <<BS, "t">>
            [] OTHER       -> <<s[i]>>) \o EscapeBreaks(s, i + 1)

\* \d+(?:\.\d+)?% at index i: the index behind the token, 0 without a match
PercentEnd(s, i) ==
    LET int_end == SkipDigits(s, i)
        frac_end ==
            IF int_end <= Len(s) /\ s[int_end] = "."
               /\ SkipDigits(s, int_end + 1) > int_end + 1
            THEN SkipDigits(s, int_end + 1)
            ELSE int_end
    IN IF int_end > i /\ frac_end <= Len(s) /\ s[frac_end] = "%"
       THEN frac_end + 1
       ELSE 0

\* re.sub(r':\s*(\d+(?:\.\d+)?%)', r': "\1"', s), from index i on
RECURSIVE QuotePercents(_, _)
QuotePercents(s, i) ==
    IF i > Len(s) THEN <<>>
    ELSE LET tok == SkipSpace(s, i + 1)
             behind == PercentEnd(s, tok)
         IN IF s[i] = ":" /\ behind # 0
            THEN <<":", " ", Q>> \o SubSeq(s, tok, behind - 1) \o <<Q>>
                 \o QuotePercents(s, behind)
            ELSE <<s[i]>> \o QuotePercents(s, i + 1)

\* response.find('{'), 0 where find returns -1
FirstBrace(s) ==
    LET at == {i \in 1..Len(s) : s[i] = "{"}
    IN IF at = {} THEN 0 ELSE Least(at)

\* the brace counting loop from index i on: the index of the brace that
\* brings the count back to 0, or 0 if none does
RECURSIVE MatchBrace(_, _, _)
MatchBrace(s, i, brace_count) ==
    IF i > Len(s) THEN 0
    ELSE IF s[i] = "{" THEN MatchBrace(s, i + 1, brace_count + 1)
    ELSE IF s[i] = "}"
         THEN IF brace_count - 1 = 0 THEN i
              ELSE MatchBrace(s, i + 1, brace_count - 1)
    ELSE MatchBrace(s, i + 1, brace_count)

\* re.sub(r'(?<!\\)"(?![\s,\]:}])', '\\"', s), from index i on
RECURSIVE EscapeQuotes(_, _)
EscapeQuotes(s, i) ==
    IF i > Len(s) THEN <<>>
    ELSE (IF /\ s[i] = Q
             /\ (i = 1 \/ s[i - 1] # BS)
             /\ (i = Len(s)
                 \/ ~(IsSpace(s[i + 1]) \/ s[i + 1] \in {",", "]", ":", "}"}))
          THEN <<BS, Q>>
          ELSE <<s[i]>>) \o EscapeQuotes(s, i + 1)

Count(s, c) == Cardinality({i \in 1..Len(s) : s[i] = c})

\* line.count('"') - line.count('\\"')
QuoteCount(line) ==
    Count(line, Q)
    - Cardinality({i \in 1..(Len(line) - 1) : line[i] = BS /\ line[i + 1] = Q})

\* the per-line repair.  EscapeBreaks has replaced every line break, so
\* split('\n') yields the text as its only line.
FixLine(line) ==
    IF QuoteCount(line) % 2 = 1 /\ ~EndsWith(Strip(line), Q)
    THEN RStrip(line) \o <<Q>>
    ELSE line

\* '}' * n
Braces(n) == [k \in 1..n |-> "}"]

\* the closing-brace repair
CloseBraces(json_str) ==
    IF ~EndsWith(RStrip(json_str), "}")
    THEN json_str \o Braces(Count(json_str, "{") - Count(json_str, "}"))
    ELSE json_str

\* _clean_and_fix_json: found is FALSE where it returns None
CleanAndFixJson(text) ==
    LET response == QuotePercents(EscapeBreaks(SelectSeq(text, Kept), 1), 1)
        start_pos == FirstBrace(response)
        end_pos == MatchBrace(response, start_pos, 0)
    IN IF start_pos = 0 \/ end_pos = 0 THEN NoText
       ELSE [found |-> TRUE,
             text |-> CloseBraces(FixLine(EscapeQuotes(
                          SubSeq(response, start_pos, end_pos), 1)))]

(* parse_json_response *)
K_error == <<"e", "r", "r", "o", "r">>
K_raw_response ==
    <<"r", "a", "w", "_", "r", "e", "s", "p", "o", "n", "s", "e">>
K_parsing_failed ==
    <<"p", "a", "r", "s", "i", "n", "g", "_", "f", "a", "i", "l", "e", "d">>
FailedToParse ==
    <<"F", "a", "i", "l", "e", "d", " ", "t", "o", " ", "p", "a", "r", "s",
      "e", " ", "J", "S", "O", "N">>

Prefix(s, n) == SubSeq(s, 1, IF Len(s) < n THEN Len(s) ELSE n)

\* variant: the failure record carries no markers
FailureRecord_Bare(response) ==
    ObjVal(Put(<<>>, K_raw_response, StrVal(Prefix(response, RawLimit))))

\* the record returned when both attempts fail
FailureRecord(response) ==
    ObjVal(Put(Put(Put(<<>>, K_error, StrVal(FailedToParse)),
                   K_raw_response, StrVal(Prefix(response, RawLimit))),
               K_parsing_failed, TrueVal))

\* the text json.loads is first given: fences removed, stripped
Unfenced(text) == Strip(SubFence(SubFence(text, FenceJson, 1), Fence, 1))

\* whether the call goes into its except branch
EntersRepair(text) == ~Loads(Unfenced(text)).ok

\* parse_json_response: the value json.loads gives for the unfenced text,
\* else for the repaired text, else the failure record
ParseJsonResponse(text) ==
    LET response == Unfenced(text)
        cleaned_response == CleanAndFixJson(response)
    IN IF Loads(response).ok THEN Loads(response).val
       ELSE IF cleaned_response.found /\ cleaned_response.text # <<>>
               /\ Loads(cleaned_response.text).ok
            THEN Loads(cleaned_response.text).val
       ELSE FailureRecord(response)

\* truth value of a parsed value
Truthy(v) ==
    CASE v.t = "str"  -> v.s # <<>>
      [] v.t = "num"  -> \E i \in 1..Len(v.s) : v.s[i] \notin {"0", "."}
      [] v.t = "obj"  -> DOMAIN v.m # {}
      [] v.t = "true" -> TRUE
      [] OTHER        -> FALSE

\* dict.get(key), None when the key is missing
Get(v, key) == IF key \in DOMAIN v.m THEN v.m[key] ELSE NoVal

\* _is_valid_parsed_response
IsValidParsedResponse(parsed_response) ==
    ~(Truthy(Get(parsed_response, K_error))
      \/ Truthy(Get(parsed_response, K_parsing_failed)))

(* _is_content_insufficient *)
\* A content record maps its keys to values [t, items]: a string (its one
\* item), a number (its one item), a list (its items) or a dict (its
\* values).  An item is "text", "number", "empty" ('') or "blank" (' ').
BookkeepingKeys ==
    {"error", "parsing_failed", "adaptive_analysis_used", "fallback_reason"}

\* total_content_items < 3
MinContentItems == 3

\* item and str(item).strip()
ItemCounts(item) == item \in {"text", "number"}

\* what one value adds to total_content_items
Counted(value) ==
    CASE value.t \in {"list", "dict"} ->
            Cardinality({i \in 1..Len(value.items) :
                            ItemCounts(value.items[i])})
      [] value.t = "str" ->
            IF value.items[1] = "text" THEN 1 ELSE 0
      [] OTHER -> 0

RECURSIVE TotalContentItems(_, _)
TotalContentItems(fields, keys) ==
    IF keys = {} THEN 0
    ELSE LET key == CHOOSE k \in keys : TRUE
         IN (IF key \in BookkeepingKeys THEN 0 ELSE Counted(fields[key]))
            + TotalContentItems(fields, keys \ {key})

IsContentInsufficient(content) ==
    IF ~content.is_dict \/ DOMAIN content.fields = {} THEN TRUE
    ELSE TotalContentItems(content.fields, DOMAIN content.fields)
             < MinContentItems

(* the calls that are made *)
\* largest number of members of a generated JSON object text
MaxMembers == 2

K_score == <<"s", "c", "o", "r", "e">>
Percent93 == <<"9", "3", "%">>

\* "a": 9
MemberNumber == <<Q, "a", Q, ":", " ", "9">>
\* "score": 93%
MemberPercent == <<Q>> \o K_score \o <<Q, ":", " ">> \o Percent93
\* "a": "x"
MemberString == <<Q, "a", Q, ":", " ", Q, "x", Q>>
\* "x": "<fence>"
MemberFence == <<Q, "x", Q, ":", " ", Q>> \o Fence \o <<Q>>
\* "s": "93%"
MemberQuotedPercent == <<Q, "s", Q, ":", " ", Q>> \o Percent93 \o <<Q>>

Members == {MemberNumber, MemberPercent, MemberString, MemberFence,
            MemberQuotedPercent}

MemberLists == UNION {[1..n -> Members] : n \in 0..MaxMembers}

RECURSIVE Join(_, _)
Join(parts, sep) ==
    IF parts = <<>> THEN <<>>
    ELSE IF Len(parts) = 1 THEN parts[1]
    ELSE parts[1] \o sep \o Join(Tail(parts), sep)

Layouts == {"single_line", "multi_line"}

\* the object text with the given members, on one line or one member a line
ObjectText(members, layout) ==
    IF layout = "single_line"
    THEN <<"{">> \o Join(members, <<",", " ">>) \o <<"}">>
    ELSE <<"{", NL, " ">> \o Join(members, <<",", NL, " ">>) \o <<NL, "}">>

Damages == {"none", "unclosed", "prose_behind", "prose_in_front"}

Damaged(text, damage) ==
    CASE damage = "unclosed"       -> SubSeq(text, 1, Len(text) - 1)
      [] damage = "prose_behind"   -> text \o <<" ", "o", "k">>
      [] damage = "prose_in_front" -> <<"o", "k", " ">> \o text
      [] OTHER                     -> text

Long(n) == [k \in 1..n |-> "x"]

\* texts that are no object: nothing, prose, a number, and two texts longer
\* than the part of a response the failure record keeps
OtherTexts ==
    {<<>>, <<"o", "k">>, <<"9", "3">>, Long(RawLimit + 1),
     <<"{">> \o Long(RawLimit + 1)}

Fences == {"none", "json", "plain"}

ResponseTexts ==
    {[body |-> Damaged(ObjectText(ms, l), d), fence |-> f] :
        ms \in MemberLists, l \in Layouts, d \in Damages, f \in Fences}
    \cup {[body |-> b, fence |-> "none"] : b \in OtherTexts}

\* the text of a response: its body, inside a code fence or not
Response(r) ==
    CASE r.fence = "json"  -> FenceJson \o <<NL>> \o r.body \o <<NL>> \o Fence
      [] r.fence = "plain" -> Fence \o <<NL>> \o r.body \o <<NL>> \o Fence
      [] OTHER             -> r.body

ContentKeys ==
    {"value_proposition", "elevator_pitch", "tagline_options", "error"}

ContentValues ==
    {[t |-> "str", items |-> <<"text">>],
     [t |-> "str", items |-> <<"empty">>],
     [t |-> "str", items |-> <<"blank">>],
     [t |-> "num", items |-> <<"number">>],
     [t |-> "list", items |-> <<>>],
     [t |-> "list", items |-> <<"text", "text">>],
     [t |-> "dict", items |-> <<"text", "empty", "number">>]}

Contents ==
    {NotADict} \cup
    {[is_dict |-> TRUE, fields |-> f] :
        f \in UNION {[K -> ContentValues] : K \in SUBSET ContentKeys}}

\* parse_json_response(Response(p_text)), with the direct parse of the body
\* and what the repair pass did kept for comparison
parse_json_response ==
    /\ p_pc = "text"
    /\ LET text == Response(p_text)
           parsed == ParseJsonResponse(text)
           cleaned == CleanAndFixJson(Unfenced(text))
       IN p_out' = [p_out EXCEPT
              !.parsed = parsed,
              !.valid = parsed.t = "obj" /\ IsValidParsedResponse(parsed),
              !.entered_repair = EntersRepair(text),
              !.repair_parses = cleaned.found /\ Loads(cleaned.text).ok,
              !.direct_ok = Loads(p_text.body).ok,
              !.direct = Loads(p_text.body).val]
    /\ p_pc' = "parsed"
    /\ UNCHANGED <<p_text, p_content, pipelineVars, apiVars, stageVars, sessionVars,
                   pairVars, basicVars>>

\* _clean_and_fix_json(p_text.body) and json.loads of what it returned
clean_and_fix_json ==
    /\ p_pc = "parsed"
    /\ LET fixed == CleanAndFixJson(p_text.body)
       IN p_out' = [p_out EXCEPT
              !.fixed = fixed,
              !.reparsed_ok = fixed.found /\ Loads(fixed.text).ok,
              !.reparsed = IF fixed.found THEN Loads(fixed.text).val
                           ELSE NoVal]
    /\ p_pc' = "fixed"
    /\ UNCHANGED <<p_text, p_content, pipelineVars, apiVars, stageVars, sessionVars,
                   pairVars, basicVars>>

\* _is_content_insufficient(p_content)
is_content_insufficient ==
    /\ p_pc = "content"
    /\ p_out' = [p_out EXCEPT
           !.insufficient = IsContentInsufficient(p_content)]
    /\ p_pc' = "checked"
    /\ UNCHANGED <<p_text, p_content, pipelineVars, apiVars, stageVars, sessionVars,
                   pairVars, basicVars>>

ParserInit ==
    /\ PipelineIdle(80, MaxCycles)
    /\ SessionIdle
    /\ PairIdle
    /\ BasicIdle
    /\ StageIdle
    /\ ApiIdle
    /\ p_out = NoOutput
    /\ \/ /\ p_pc = "text"
          /\ p_text \in ResponseTexts
          /\ p_content = NotADict
       \/ /\ p_pc = "content"
          /\ p_text = NoResponse
          /\ p_content \in Contents

ParserNext ==
    \/ parse_json_response
    \/ clean_and_fix_json
    \/ is_content_insufficient

ParserSpec == ParserInit /\ [][ParserNext]_vars

(* ------------------------------ the basic pipeline (langgraph_agents.py) *)
\* MessageCraftAgents: seven nodes on a straight line, no progress tracker,
\* no parser: every stage decodes the reply with json.loads inside one try
\* whose except clause stores a static fallback.
\* A reply is a JSON object, a JSON array, the JSON text null, text that
\* json.loads rejects, or no reply because the provider call raised.
BasicReplies == {"object", "array", "null", "undecodable", "raise"}

\* what the "competitors" key of a decoded profile can hold: a list (also
\* when the key is missing: get's default), null, or an object
CompetitorsKinds == {"list", "null", "object"}

\* the edges of MessageCraftAgents.setup_graph, entry point first
BasicStages ==
    <<"business_discovery", "competitor_research", "positioning_analysis",
      "messaging_generator", "content_creator", "quality_reviewer",
      "final_assembly">>

\* the generated fields
BasicFields ==
    {"business_profile", "competitor_analysis", "positioning_strategy",
     "messaging_framework", "content_assets", "quality_review"}

\* json.loads(response.content) raises, or the call before it did
BasicDecodeFails(reply) == reply \in {"undecodable", "raise"}

\* the value json.loads returns for a decodable reply
BasicDecoded(reply) ==
    IF reply = "null" THEN "None"
    ELSE IF reply = "array" THEN "array"
    ELSE "model"

\* generate_messaging_playbook up to app.ainvoke(initial_state)
BasicInvoke ==
    /\ b_pc = "idle"
    /\ b_state' = BasicInitialState
    /\ b_pc' = BasicStages[1]
    /\ UNCHANGED <<b_execs, b_result, pipelineVars, apiVars, stageVars, sessionVars,
                   pairVars, parserVars>>

\* business_discovery_agent: the success path calls business_profile.get,
\* which raises inside the try for a decoded value that is not an object
basic_business_discovery_agent ==
    /\ b_pc = "business_discovery"
    /\ \E reply \in BasicReplies, competitors \in CompetitorsKinds :
         /\ (reply # "object") => competitors = "list"
         /\ b_state' = [b_state EXCEPT
                !.business_profile =
                    IF reply = "object" THEN "model" ELSE "fallback",
                !.competitors = competitors]
    /\ b_execs' = Append(b_execs, "business_discovery")
    /\ b_pc' = "competitor_research"
    /\ UNCHANGED <<b_result, pipelineVars, apiVars, stageVars, sessionVars, pairVars,
                   parserVars>>

\* len(competitors) in the try block raises TypeError for None
CompetitorsLenRaises(competitors) == competitors = "null"

\* competitors[:3] in the except clause raises for None and for a dict
CompetitorsSliceRaises(competitors) == competitors \in {"null", "object"}

\* competitor_research_agent: the except clause builds its fallback from
\* competitors[:3]; an exception raised there leaves the stage function
basic_competitor_research_agent ==
    /\ b_pc = "competitor_research"
    /\ \E reply \in BasicReplies :
         LET stored ==
                 IF BasicDecodeFails(reply) THEN b_state
                 ELSE [b_state EXCEPT
                          !.competitor_analysis = BasicDecoded(reply)]
             try_fails ==
                 \/ BasicDecodeFails(reply)
                 \/ CompetitorsLenRaises(b_state.competitors)
         IN IF ~try_fails
            THEN /\ b_state' = stored
                 /\ b_pc' = "positioning_analysis"
            ELSE IF CompetitorsSliceRaises(b_state.competitors)
            THEN /\ b_state' = stored
                 /\ b_pc' = "raised"
            ELSE /\ b_state' = [b_state EXCEPT
                        !.competitor_analysis = "fallback"]
                 /\ b_pc' = "positioning_analysis"
    /\ b_execs' = Append(b_execs, "competitor_research")
    /\ UNCHANGED <<b_result, pipelineVars, apiVars, stageVars, sessionVars, pairVars,
                   parserVars>>

\* what a stage stores that keeps whatever json.loads returned and touches
\* it no more, or its static fallback
BasicStored(reply) ==
    IF BasicDecodeFails(reply) THEN "fallback" ELSE BasicDecoded(reply)

basic_positioning_analysis_agent ==
    /\ b_pc = "positioning_analysis"
    /\ \E reply \in BasicReplies :
         b_state' = [b_state EXCEPT
            !.positioning_strategy = BasicStored(reply)]
    /\ b_execs' = Append(b_execs, "positioning_analysis")
    /\ b_pc' = "messaging_generator"
    /\ UNCHANGED <<b_result, pipelineVars, apiVars, stageVars, sessionVars, pairVars,
                   parserVars>>

basic_messaging_generator_agent ==
    /\ b_pc = "messaging_generator"
    /\ \E reply \in BasicReplies :
         b_state' = [b_state EXCEPT
            !.messaging_framework = BasicStored(reply)]
    /\ b_execs' = Append(b_execs, "messaging_generator")
    /\ b_pc' = "content_creator"
    /\ UNCHANGED <<b_result, pipelineVars, apiVars, stageVars, sessionVars, pairVars,
                   parserVars>>

basic_content_creator_agent ==
    /\ b_pc = "content_creator"
    /\ \E reply \in BasicReplies :
         b_state' = [b_state EXCEPT !.content_assets = BasicStored(reply)]
    /\ b_execs' = Append(b_execs, "content_creator")
    /\ b_pc' = "quality_reviewer"
    /\ UNCHANGED <<b_result, pipelineVars, apiVars, stageVars, sessionVars, pairVars,
                   parserVars>>

basic_quality_reviewer_agent ==
    /\ b_pc = "quality_reviewer"
    /\ \E reply \in BasicReplies :
         b_state' = [b_state EXCEPT !.quality_review = BasicStored(reply)]
    /\ b_execs' = Append(b_execs, "quality_reviewer")
    /\ b_pc' = "final_assembly"
    /\ UNCHANGED <<b_result, pipelineVars, apiVars, stageVars, sessionVars, pairVars,
                   parserVars>>

\* the record final_assembly_agent assembles
BasicFinalOutput(s) ==
    [kind |-> "final_output",
     business_profile |-> s.business_profile,
     competitor_analysis |-> s.competitor_analysis,
     positioning_strategy |-> s.positioning_strategy,
     messaging_framework |-> s.messaging_framework,
     content_assets |-> s.content_assets,
     quality_review |-> s.quality_review,
     status |-> "completed"]

\* final_assembly_agent: no Generation Client call, no try
basic_final_assembly_agent ==
    /\ b_pc = "final_assembly"
    /\ b_state' = [b_state EXCEPT !.final_output = BasicFinalOutput(b_state)]
    /\ b_execs' = Append(b_execs, "final_assembly")
    /\ b_pc' = "END"
    /\ UNCHANGED <<b_result, pipelineVars, apiVars, stageVars, sessionVars, pairVars,
                   parserVars>>

\* the record of the except clause of generate_messaging_playbook
BasicErrorRecord ==
    [kind |-> "error_record", status |-> "failed", error |-> TRUE]

\* generate_messaging_playbook after app.ainvoke returned or raised
BasicComplete ==
    /\ b_pc \in {"END", "raised"}
    /\ b_result' = IF b_pc = "raised" \/ IsNone(b_state.final_output)
                   THEN BasicErrorRecord
                   ELSE b_state.final_output
    /\ b_pc' = "returned"
    /\ UNCHANGED <<b_state, b_execs, pipelineVars, apiVars, stageVars, sessionVars,
                   pairVars, parserVars>>

BasicInit ==
    /\ PipelineIdle(80, MaxCycles)
    /\ SessionIdle
    /\ PairIdle
    /\ ParserIdle
    /\ BasicIdle
    /\ StageIdle
    /\ ApiIdle

BasicNext ==
    \/ BasicInvoke
    \/ basic_business_discovery_agent
    \/ basic_competitor_research_agent
    \/ basic_positioning_analysis_agent
    \/ basic_messaging_generator_agent
    \/ basic_content_creator_agent
    \/ basic_quality_reviewer_agent
    \/ basic_final_assembly_agent
    \/ BasicComplete

BasicSpec == BasicInit /\ [][BasicNext]_vars

(* ------------------------- one stage applied to what the parser returned *)
\* positioning_analysis_agent on the records parse_json_response returns:
\* a reply is the parsed record of a call, or raised when the call raised.
\* The records are those of the content check (Contents).

\* bool(value) of a content value; a number stands for a non-zero one
ContentTruthy(value) ==
    CASE value.t = "str" -> value.items[1] # "empty"
      [] value.t = "num" -> TRUE
      [] OTHER           -> value.items # <<>>

\* positioning_strategy and not positioning_strategy.get('error'); get
\* raises for a value that is not a dict, which the inner except catches
AdaptiveAccepted(content) ==
    /\ content.is_dict
    /\ DOMAIN content.fields # {}
    /\ ("error" \in DOMAIN content.fields)
          => ~ContentTruthy(content.fields["error"])

\* the accepted adaptive record with its two bookkeeping keys set
AdaptiveMarked(content) ==
    [is_dict |-> TRUE,
     fields |->
        [k \in DOMAIN content.fields
                \cup {"adaptive_analysis_used", "fallback_reason"} |->
            IF k = "adaptive_analysis_used"
            THEN [t |-> "bool", items |-> <<"true">>]
            ELSE IF k = "fallback_reason"
            THEN [t |-> "str", items |-> <<"text">>]
            ELSE content.fields[k]]]

\* the minimal structure stored when both calls failed
PositioningPlaceholder ==
    [is_dict |-> TRUE,
     fields |->
        [k \in {"unique_positioning", "target_segments",
                "differentiation_strategy", "messaging_angles",
                "positioning_statement", "strategic_recommendations",
                "adaptive_analysis_used", "fallback_reason"} |->
            IF k \in {"unique_positioning", "positioning_statement"}
            THEN [t |-> "str", items |-> <<"empty">>]
            ELSE IF k = "adaptive_analysis_used"
            THEN [t |-> "bool", items |-> <<"false">>]
            ELSE IF k = "fallback_reason"
            THEN [t |-> "str", items |-> <<"text">>]
            ELSE [t |-> "list", items |-> <<>>]]]

\* what positioning_analysis_agent leaves in state["positioning_strategy"]
PositioningStored(primary, adaptive) ==
    IF ~primary.raised THEN primary.content
    ELSE IF ~adaptive.raised /\ AdaptiveAccepted(adaptive.content)
    THEN AdaptiveMarked(adaptive.content)
    ELSE PositioningPlaceholder

\* parsed records of the primary response
PrimaryReplies ==
    {NoReply} \cup {[raised |-> FALSE, content |-> c] : c \in Contents}

\* parsed records of the adaptive response
AdaptiveContents ==
    {NotADict,
     [is_dict |-> TRUE, fields |-> <<>>],
     [is_dict |-> TRUE,
      fields |-> [k \in {"error"} |-> [t |-> "str", items |-> <<"text">>]]],
     [is_dict |-> TRUE,
      fields |-> [k \in {"value_proposition", "tagline_options"} |->
                    IF k = "value_proposition"
                    THEN [t |-> "str", items |-> <<"text">>]
                    ELSE [t |-> "list", items |-> <<"text", "text">>]]]}

AdaptiveReplies ==
    {NoReply} \cup {[raised |-> FALSE, content |-> c] : c \in AdaptiveContents}

\* positioning_analysis_agent, from the primary call to its return
positioning_analysis_stores ==
    /\ g_pc = "ready"
    /\ g_stored' = PositioningStored(g_primary, g_adaptive)
    /\ g_pc' = "done"
    /\ UNCHANGED <<g_primary, g_adaptive, pipelineVars, apiVars, sessionVars, pairVars,
                   parserVars, basicVars>>

StageInit ==
    /\ PipelineIdle(80, MaxCycles)
    /\ SessionIdle
    /\ PairIdle
    /\ ParserIdle
    /\ BasicIdle
    /\ ApiIdle
    /\ g_pc = "ready"
    /\ g_stored = NotADict
    /\ g_primary \in PrimaryReplies
    /\ g_adaptive \in IF g_primary.raised THEN AdaptiveReplies ELSE {NoReply}

StageNext == positioning_analysis_stores

StageSpec == StageInit /\ [][StageNext]_vars

(* ------------------------------------------------- generation endpoint *)
(* generate_playbook_endpoint and process_messaging_playbook of           *)
(* backend/production_api.py with the database calls of                   *)
(* backend/database_enhanced.py.  One user sends requests one after the   *)
(* other; every request is one action, every background task is one       *)
(* action.  The SQL function behind use_kit_generation is not part of the *)
(* sources: it is taken to debit a credit if there is one, else a free    *)
(* kit, and to report success exactly when it debited.                    *)

\* most requests the user sends
MaxRequests == 3
\* most credits the user starts with
MaxCredits == 2

\* settings.FREE_TIER_KIT_LIMIT
FreeTierKitLimit == 1

\* outcomes of the use_kit_generation call: the function reports success,
\* reports no success, or the call raises
KitOutcomes == {"success", "refused", "raise"}

\* outcomes of the statements between the debit and the scheduling:
\* all succeed, save_user_session raises before its insert, or a later call
\* (record_kit_generation, track_usage, the constructor) raises
SetupOutcomes == {"ok", "no_session", "raise_later"}

\* what generate_messaging_playbook returns: the assembled playbook or its
\* error record with status failed
Returned == {"playbook", "error_record"}

WriteOutcomes == {"ok", "raise"}

\* check_user_can_generate for an existing user
CanGenerate(user, production) ==
    IF production
    THEN user.credits > 0 \/ user.free_kits_used < FreeTierKitLimit
    ELSE TRUE

\* whether the function has something to debit
KitAvailable(user) ==
    user.credits > 0 \/ user.free_kits_used < FreeTierKitLimit

\* the user's row after the function debited
UseKit(user) ==
    IF user.credits > 0
    THEN [user EXCEPT !.credits = @ - 1]
    ELSE [user EXCEPT !.free_kits_used = @ + 1]

\* variant: the handler goes on whatever the function reported
KitUsed_Unchecked(kit) == kit # "raise"

\* the handler goes on after use_kit_generation only if result["success"]
KitUsed(kit) == kit = "success"

\* the row save_user_session inserts; scheduled tells whether its task was
\* handed to background_tasks
NewSession(scheduled) ==
    [status |-> "processing",
     results |-> "None",
     task |-> IF scheduled THEN "scheduled" ELSE "none",
     returned |-> "None",
     saved |-> FALSE,
     marked |-> "not_tried"]

generate_playbook_endpoint ==
    /\ a_response # "unused"
    /\ a_requests < MaxRequests
    /\ a_requests' = a_requests + 1
    /\ \E kit \in KitOutcomes, setup \in SetupOutcomes :
         /\ (kit = "success") => KitAvailable(a_user)
         /\ (~CanGenerate(a_user, a_production)) =>
                (kit = "refused" /\ setup = "ok")
         /\ (~KitUsed(kit)) => setup = "ok"
         /\ IF ~CanGenerate(a_user, a_production)
            THEN /\ a_response' = "403"
                 /\ UNCHANGED <<a_user, a_sessions, a_debits, a_scheduled>>
            ELSE /\ a_user' = IF kit = "success" THEN UseKit(a_user)
                              ELSE a_user
                 /\ a_debits' = a_debits + (IF kit = "success" THEN 1 ELSE 0)
                 /\ IF ~KitUsed(kit)
                    THEN /\ a_response' = IF kit = "raise" THEN "500" ELSE "403"
                         /\ UNCHANGED <<a_sessions, a_scheduled>>
                    ELSE /\ a_sessions' =
                              IF setup = "no_session" THEN a_sessions
                              ELSE Append(a_sessions,
                                          NewSession(setup = "ok"))
                         /\ a_scheduled' =
                              a_scheduled + (IF setup = "ok" THEN 1 ELSE 0)
                         /\ a_response' = IF setup = "ok" THEN "200" ELSE "500"
    /\ UNCHANGED <<a_production, pipelineVars, sessionVars, pairVars,
                   parserVars, basicVars, stageVars>>

\* variant: a returned error record marks the session failed
SessionAfterTask_FailingOnError(row, returned, save, mark) ==
    IF save = "ok" /\ returned # "error_record"
    THEN [row EXCEPT !.status = "completed", !.results = returned]
    ELSE [row EXCEPT !.status = IF mark = "ok" THEN "failed" ELSE @]

\* the status and results of the session once process_messaging_playbook
\* has ended: the update of save_messaging_results, or after an exception
\* the update of the except clause, which may raise in its turn
SessionAfterTask(row, returned, save, mark) ==
    IF save = "ok"
    THEN [row EXCEPT !.status = "completed", !.results = returned]
    ELSE [row EXCEPT !.status = IF mark = "ok" THEN "failed" ELSE @]

\* returned, saved and marked keep what happened in the task
process_messaging_playbook ==
    /\ a_response # "unused"
    /\ \E i \in 1..Len(a_sessions) :
         /\ a_sessions[i].task = "scheduled"
         /\ \E returned \in Returned, save, mark \in WriteOutcomes :
              /\ (save = "ok") => mark = "ok"
              /\ a_sessions' =
                    [a_sessions EXCEPT ![i] =
                        [SessionAfterTask(@, returned, save, mark) EXCEPT
                            !.task = "finished",
                            !.returned = returned,
                            !.saved = (save = "ok"),
                            !.marked = IF save = "ok" THEN "not_tried"
                                       ELSE mark]]
    /\ UNCHANGED <<a_response, a_production, a_user, a_requests, a_debits,
                   a_scheduled, pipelineVars, sessionVars, pairVars,
                   parserVars, basicVars, stageVars>>

ApiInit ==
    /\ PipelineIdle(80, MaxCycles)
    /\ SessionIdle
    /\ PairIdle
    /\ ParserIdle
    /\ BasicIdle
    /\ StageIdle
    /\ a_response = "none"
    /\ a_production \in BOOLEAN
    /\ a_user \in [credits : 0..MaxCredits,
                   free_kits_used : 0..FreeTierKitLimit]
    /\ a_sessions = <<>>
    /\ a_requests = 0
    /\ a_debits = 0
    /\ a_scheduled = 0

ApiNext ==
    \/ generate_playbook_endpoint
    \/ process_messaging_playbook

ApiSpec == ApiInit /\ [][ApiNext]_vars

(* ================================================================ claims *)
\* the nine generation stages in front of the reflection loop
GenerationStages ==
    {"business_discovery", "competitor_research", "positioning_analysis",
     "trust_building", "emotional_intelligence", "social_proof_generator",
     "messaging_generator", "content_creator", "quality_reviewer"}

LoopStages == {"critique_agent", "refinement_agent", "meta_reviewer"}

\* the state field a generation stage writes, "None" while it is absent
StageField(n, s) ==
    CASE n = "business_discovery"     -> s.business_profile
      [] n = "competitor_research"    -> s.competitor_analysis
      [] n = "positioning_analysis"   -> s.positioning_strategy
      [] n = "trust_building"         -> s.trust_building_analysis
      [] n = "emotional_intelligence" -> s.emotional_intelligence_analysis
      [] n = "social_proof_generator" -> s.social_proof_analysis
      [] n = "messaging_generator"    -> s.messaging_framework.kind
      [] n = "content_creator"        -> s.content_assets.kind
      [] n = "quality_reviewer"       -> s.quality_review.kind

\* the same field as the returned record carries it, "None" when it has none
FinalField(n, r) ==
    IF r.kind # "final_output" THEN "None"
    ELSE CASE n = "business_discovery"   -> r.business_profile
           [] n = "competitor_research"  -> r.competitor_analysis
           [] n = "positioning_analysis" -> r.positioning_strategy
           [] n = "messaging_generator"  -> r.messaging_framework.kind
           [] n = "content_creator"      -> r.content_assets.kind
           [] n = "quality_reviewer"     -> r.quality_review.kind
           [] OTHER                      -> "None"

Scored(scores) ==
    /\ state.quality_review.kind = "scored"
    /\ state.quality_review.premium_quality_scores = scores

\* C1: total output - no exception leaves a stage function, and a completed
\* run went through final_assembly and holds a final_output.
C1_TotalOutput ==
    /\ escaped = "none"
    /\ pc = "returned" =>
         /\ execs["final_assembly"] = 1
         /\ ~IsNone(state.final_output)

\* C2: termination - with max_reflection_cycles = N the Quality Scorer and
\* the Reflection Controller each run at most N+1 times and the critique
\* stage at most N times; once the controller has made its (N+1)-th pass the
\* run is out of the critique/refine loop, so the loop cannot go on.
C2_Termination ==
    /\ execs["quality_reviewer"] <= self_max_reflection_cycles + 1
    /\ execs["reflection_orchestrator"] <= self_max_reflection_cycles + 1
    /\ execs["critique_agent"] <= self_max_reflection_cycles
    /\ execs["reflection_orchestrator"] = self_max_reflection_cycles + 1 =>
          pc \in {"final_assembly", "END", "returned"}

C2_Witness ==
    /\ pc = "final_assembly"
    /\ execs["reflection_orchestrator"] = 2
    /\ execs["critique_agent"] = 1

\* C3: generate_messaging_playbook always hands a record back (the assembled
\* final_output or its error record, never a propagated exception), and the
\* record carries the error field when the run raised or left no final_output.
C3_AlwaysReturns ==
    pc = "returned" =>
        /\ result.kind \in {"final_output", "error_record"}
        /\ (escaped # "none" \/ IsNone(state.final_output)) =>
              (result.kind = "error_record" /\ result.error)

C3_Witness ==
    /\ pc = "returned"
    /\ escaped = "trust_building"
    /\ result = ErrorRecord

\* C4: a generation stage all of whose Generation Client calls raised leaves
\* a non-null record in its field, lets the following stages run, and the
\* returned final_output carries that field non-null.
C4_PlaceholderOnStageFailure ==
    \A n \in GenerationStages \cap all_raised :
        /\ StageField(n, state) # "None"
        /\ escaped = "none"
        /\ pc = "returned" =>
              (result.kind = "final_output" /\ FinalField(n, result) # "None")

\* C5: reflection_cycle never decreases and never exceeds
\* max_reflection_cycles.
C5_MonotonicCycle ==
    /\ [](state.reflection_cycle <= state.max_reflection_cycles)
    /\ [][state'.reflection_cycle >= state.reflection_cycle]_vars

C5_Witness ==
    /\ state.max_reflection_cycles = 2
    /\ state.reflection_cycle = 2
    /\ pc = "final_assembly"

\* C6: all dimensions scored 1 and max_reflection_cycles = 2 - critique and
\* refinement each run exactly twice and the run finalizes with
\* total_reflection_cycles = 2.
C6_TwoCyclesAtCapTwo ==
    (pc = "returned" /\ self_max_reflection_cycles = 2 /\ Scored(AllDims(10)))
    => /\ execs["critique_agent"] = 2
       /\ execs["refinement_agent"] = 2
       /\ result.kind = "final_output"
       /\ result.reflection_metadata.total_reflection_cycles = 2

\* the formula of the transition rule against a given quality bar
RoutedPerRule(bar) ==
    pc \in {"critique_agent", "final_assembly"} =>
        (pc = "critique_agent" <=>
            /\ RatLess(CurrentQuality(state.quality_review), Rat(bar, 1))
            /\ state.reflection_cycle < state.max_reflection_cycles
            /\ state.needs_refinement)

C8_RescoredBeforeEachDecision ==
    execs["reflection_orchestrator"] <= execs["quality_reviewer"]

\* C9: with max_reflection_cycles = 0 a completed run executed each of the
\* nine generation stages exactly once, no loop stage, one Reflection
\* Controller pass that finalized, and left reflection_cycle = 0.
C9_ZeroCycles ==
    (pc = "returned" /\ self_max_reflection_cycles = 0) =>
        /\ \A n \in GenerationStages : execs[n] = 1
        /\ \A n \in LoopStages : execs[n] = 0
        /\ execs["reflection_orchestrator"] = 1
        /\ execs["final_assembly"] = 1
        /\ state.reflection_cycle = 0

\* C10: all ten dimensions scored 10 with a threshold <= 10 -
\* needs_refinement is false from the scoring on, no reflection cycle is
\* counted, the critique stage never runs and the returned record reports
\* total_reflection_cycles = 0.
C10_PerfectScore ==
    (Scored(AllDims(100)) /\ state.quality_threshold <= 100) =>
        /\ ~state.needs_refinement
        /\ state.reflection_cycle = 0
        /\ execs["critique_agent"] = 0
        /\ pc = "returned" =>
             /\ result.kind = "final_output"
             /\ result.reflection_metadata.total_reflection_cycles = 0

C10_Witness ==
    /\ pc = "returned"
    /\ Scored(AllDims(100))
    /\ result.kind = "final_output"
    /\ result.reflection_metadata.total_reflection_cycles = 0

\* the stage order the graph is said to follow: the stages a stage hands
\* over to
OrderedSuccessors(n) ==
    CASE n = "business_discovery"      -> {"competitor_research"}
      [] n = "competitor_research"     -> {"positioning_analysis"}
      [] n = "positioning_analysis"    -> {"trust_building"}
      [] n = "trust_building"          -> {"emotional_intelligence"}
      [] n = "emotional_intelligence"  -> {"social_proof_generator"}
      [] n = "social_proof_generator"  -> {"messaging_generator"}
      [] n = "messaging_generator"     -> {"content_creator"}
      [] n = "content_creator"         -> {"quality_reviewer"}
      [] n = "quality_reviewer"        -> {"reflection_orchestrator"}
      [] n = "reflection_orchestrator" -> {"critique_agent", "final_assembly"}
      [] n = "critique_agent"          -> {"refinement_agent"}
      [] n = "refinement_agent"        -> {"meta_reviewer"}
      [] n = "meta_reviewer"           -> {"reflection_orchestrator"}
      [] n = "final_assembly"          -> {"END"}

\* C11: stage order - every stage hands over to its successor in the fixed
\* order (the loop stages in the order critique, refinement, meta review,
\* controller; final_assembly last), and a finished invocation has run each
\* of the nine stages in front of the loop exactly once and final_assembly.
C11_StageOrder ==
    /\ [][(pc \in Nodes) => (pc' \in OrderedSuccessors(pc))]_vars
    /\ [](\A n \in GenerationStages : execs[n] <= 1)
    /\ [](pc = "returned" =>
            /\ \A n \in GenerationStages : execs[n] = 1
            /\ execs["final_assembly"] = 1)

\* C12: stage status protocol - the reports of every stage execution start
\* with in_progress and end with completed or failed.
C12_StatusProtocol ==
    (\E n \in Nodes : execs[n] > 0) =>
        /\ reports # <<>>
        /\ Head(reports) = "in_progress"
        /\ reports[Len(reports)] \in {"completed", "failed"}

\* C13: session isolation - every row the tracker was sent on behalf of an
\* invocation is keyed by that invocation's own session id, also when both
\* invocations run on the same instance.
C13_SessionIsolation ==
    \A r \in tracker_rows : r.key = SessionIds[r.by]

\* C14: tracker failures do not affect the outcome - on the same Generation
\* Client outcomes the run with failing tracker calls has executed the same
\* stages, stored the same records and raised or not exactly as the run
\* whose tracker calls all succeed.
C14_TrackerFailuresInvisible == run_noisy = run_quiet

C14_Witness ==
    /\ pair_at > Len(TrackedStages)
    /\ dropped >= 2
    /\ Len(run_noisy.fields) = Len(TrackedStages)

\* C15: final_output is absent until final_assembly has run; every
\* invocation writes it exactly once, and only final_assembly writes it (its
\* assembled record, or its fallback record with the error flag);
\* final_assembly hands over to the end of the graph without raising.
C15_FinalOutputOnce ==
    /\ [](execs["final_assembly"] = 0 => IsNone(state.final_output))
    /\ [](execs["final_assembly"] <= 1)
    /\ [](execs["final_assembly"] = 1 =>
            /\ state.final_output.kind \in {"final_output", "fallback_output"}
            /\ state.final_output.kind = "fallback_output" =>
                  state.final_output.error)
    /\ [](pc = "returned" => execs["final_assembly"] = 1)
    /\ [][(state'.final_output # state.final_output) =>
            (pc = "final_assembly" /\ IsNone(state.final_output))]_vars
    /\ [][(pc = "final_assembly") => (pc' = "END" /\ escaped' = "none")]_vars

\* the response {"score": 93%}, on one line or with the member on its own
OnlyPercent(layout) ==
    [body |-> ObjectText(<<MemberPercent>>, layout), fence |-> "none"]

\* C16: percent-token repair - the text {"score": 93%}, single-line or
\* multi-line, parses into the record whose score is the string "93%".
C16_PercentRepair ==
    \A l \in Layouts :
        (p_pc = "parsed" /\ p_text = OnlyPercent(l)) =>
            p_out.parsed = ObjVal(Put(<<>>, K_score, StrVal(Percent93)))

\* the call was given a text that does not parse, before or after repair
Unparsable ==
    /\ p_pc = "parsed"
    /\ p_out.entered_repair
    /\ ~p_out.repair_parses

RECURSIVE NonEmptyLeaves(_, _)
NonEmptyLeaves(fields, keys) ==
    IF keys = {} THEN 0
    ELSE LET key == CHOOSE k \in keys : TRUE
             here == {i \in 1..Len(fields[key].items) :
                         fields[key].items[i] \in {"text", "number"}}
         IN (IF key \in BookkeepingKeys THEN 0 ELSE Cardinality(here))
            + NonEmptyLeaves(fields, keys \ {key})

\* C18: sufficiency threshold - a content is classified insufficient iff it
\* is no record or has fewer than 3 non-empty leaf values outside the
\* bookkeeping keys.
C18_SufficiencyThreshold ==
    p_pc = "checked" =>
        (p_out.insufficient <=>
            (~p_content.is_dict
             \/ NonEmptyLeaves(p_content.fields, DOMAIN p_content.fields) < 3))

\* C19: parser round-trip - for a body that is valid JSON object text, with
\* or without a code fence around it, the call returns the record the
\* direct parse of the body gives, and does not enter the repair pass.
C19_RoundTrip ==
    (p_pc = "parsed" /\ p_out.direct_ok /\ p_out.direct.t = "obj") =>
        (p_out.parsed = p_out.direct /\ ~p_out.entered_repair)

\* C20: repair idempotence - for valid JSON object text the repaired text
\* parses, and parses to the record the text itself parses to.
C20_RepairIdempotent ==
    (p_pc = "fixed" /\ p_out.direct_ok /\ p_out.direct.t = "obj") =>
        (p_out.reparsed_ok /\ p_out.reparsed = p_out.direct)

\* C21: in the basic pipeline, whatever calls or decodings fail, a returned
\* invocation has run the seven stages once each in their fixed order, every
\* generated field of the returned record is non-null, and its status is
\* "completed".
C21_BasicAlwaysCompletes ==
    (b_pc = "returned") =>
        /\ b_execs = BasicStages
        /\ b_result.status = "completed"
        /\ \A f \in BasicFields : b_result[f] # "None"

\* C22: when the Quality Scorer fails altogether, quality_review is the fixed
\* fallback review (aggregate 8.5) and needs_refinement is true when the
\* stage returns, and with max_reflection_cycles >= 1 the run does not reach
\* Final Assembly without a critique pass, whatever the quality_threshold.
C22_FallbackReviewIsRefined ==
    /\ (pc = "reflection_orchestrator" /\ execs["reflection_orchestrator"] = 0
        /\ state.quality_review.kind = "fallback")
           => /\ state.quality_review = FallbackReview
              /\ state.needs_refinement
    /\ (pc = "final_assembly" /\ state.quality_review.kind = "fallback"
        /\ self_max_reflection_cycles >= 1)
           => execs["critique_agent"] >= 1

\* C23: when the meta-reviewer has set needs_refinement to false at the end
\* of a cycle, the Reflection Controller pass that follows routes to Final
\* Assembly (so no further critique runs), even with the score below the
\* threshold and cycles left.
C23_MetaReviewerStops ==
    [][(/\ pc = "reflection_orchestrator"
        /\ execs["meta_reviewer"] >= 1
        /\ ~state.needs_refinement)
          => (pc' = "final_assembly")]_vars

\* C24: reflection_cycle grows only on a Reflection Controller pass that
\* continues: a step that increments it leads to critique_agent, and a pass
\* that routes to Final Assembly leaves it unchanged.
C24_IncrementOnlyOnContinue ==
    [][/\ (state'.reflection_cycle > state.reflection_cycle)
            => (pc' = "critique_agent")
       /\ (pc = "reflection_orchestrator" /\ pc' = "final_assembly")
            => (state'.reflection_cycle = state.reflection_cycle)]_vars

\* C25: in the final output of a completed run, total_reflection_cycles is
\* the number of critique/refinement cycles that were executed, which is the
\* length of reflection_history and of critique_points.
C25_CyclesMatchHistory ==
    (pc = "END" /\ state.final_output.kind = "final_output") =>
        LET m == state.final_output.reflection_metadata
        IN /\ m.total_reflection_cycles = execs["critique_agent"]
           /\ m.total_reflection_cycles = Len(m.reflection_history)
           /\ m.total_reflection_cycles = Len(m.critique_points)

\* C26: whenever Final Assembly is about to start, needs_refinement is false,
\* whatever made the Reflection Controller finalize.
C26_FinalizeClearsFlag ==
    (pc = "final_assembly") => ~state.needs_refinement

\* C27: once a generation stage has run, its state field does not hold the
\* failure record of parse_json_response: an unparsable primary response
\* sends the stage to its fallback path.
C27_NoFailureRecordStored ==
    \A n \in GenerationStages :
        (execs[n] >= 1) => (StageField(n, state) # "parse_error")

\* a parsed record without bookkeeping keys (so a valid one) that the content
\* check classifies as insufficient
ValidButInsufficient(content) ==
    /\ content.is_dict
    /\ DOMAIN content.fields \cap BookkeepingKeys = {}
    /\ IsContentInsufficient(content)

\* C28: a primary record that is valid but insufficient is not stored: the
\* stage takes its fallback path, as it does for a parser failure.
C28_SparseRecordNotStored ==
    (g_pc = "done" /\ ~g_primary.raised
     /\ ValidButInsufficient(g_primary.content))
        => (g_stored # g_primary.content)

\* new continues old: nothing removed, nothing rewritten
Extends(old, new) ==
    /\ Len(new) >= Len(old)
    /\ SubSeq(new, 1, Len(old)) = old

\* C29: critique_points and reflection_history are append-only - no step
\* removes or rewrites an entry, every critique_agent execution appends
\* exactly one critique (the model's or the fallback), every refinement_agent
\* execution appends exactly one history entry, after which the two lists
\* have the same length, and no other node touches the lists.
C29_AppendOnly ==
    [][/\ Extends(state.critique_points, state'.critique_points)
       /\ Extends(state.reflection_history, state'.reflection_history)
       /\ (pc = "critique_agent" /\ pc' # pc) =>
            /\ Len(state'.critique_points) = Len(state.critique_points) + 1
            /\ state'.critique_points[Len(state'.critique_points)]
                   \in {"primary", "parse_error", "fallback"}
            /\ state'.reflection_history = state.reflection_history
       /\ (pc = "refinement_agent" /\ pc' # pc) =>
            /\ Len(state'.reflection_history)
                   = Len(state.reflection_history) + 1
            /\ state'.critique_points = state.critique_points
            /\ Len(state'.reflection_history) = Len(state'.critique_points)
       /\ (pc \notin {"critique_agent", "refinement_agent"}) =>
            /\ state'.critique_points = state.critique_points
            /\ state'.reflection_history = state.reflection_history]_vars

\* two completed critique -> refinement passes, the second critique being
\* the fallback critique
C29_Witness ==
    /\ pc = "meta_reviewer"
    /\ Len(state.critique_points) = 2
    /\ Len(state.reflection_history) = 2
    /\ state.critique_points[2] = "fallback"

\* the positions of the terminal statuses among the reports of an execution
TerminalReports(reps) ==
    {i \in 1..Len(reps) : reps[i] \in {"completed", "failed"}}

\* C30: one execution of a stage reports at most one terminal status - after
\* failed no completed and no second failed, after completed no failed - and
\* that status comes after in_progress.  (That a terminal status is reported
\* at all is the protocol of C12.)
C30_OneTerminalStatus ==
    /\ Cardinality(TerminalReports(reports)) <= 1
    /\ \A i \in TerminalReports(reports) :
          i = Len(reports) /\ Head(reports) = "in_progress"

\* the most Generation Client calls one invocation can make: two for each of
\* the six analysis fields, one for each of the eight components, one
\* quality review, and a critique and a meta-review per reflection cycle
CallBound(max_cycles) == 6 * 2 + 8 + 1 + 2 * max_cycles

\* C31: fallback chains are capped - no node makes more than two Generation
\* Client calls for one output field (the primary prompt, then one adaptive
\* prompt), a field holding the static placeholder was reached after exactly
\* two, and the calls of an invocation stay within a bound that depends on
\* max_reflection_cycles only.
C31_FallbackChainsCapped ==
    /\ attempts <= 2
    /\ calls <= CallBound(self_max_reflection_cycles)
    /\ (pc = "positioning_analysis"
        /\ state.competitor_analysis = "placeholder") => attempts = 2

\* competitor research after both of its calls failed
C31_Witness ==
    /\ pc = "positioning_analysis"
    /\ state.competitor_analysis = "placeholder"
    /\ attempts = 2
    /\ calls >= 3

RatEq(a, b) == a.num * b.den = b.num * a.den

\* the mean of the dimension scores a scored review carries
SuppliedMean(review) ==
    LET present == FilterSeq(review.premium_quality_scores, Absent)
    IN Rat(SumSeq(present), Len(present))

\* C32 as stated: after a successful Quality Scorer run with all ten
\* dimension scores, overall_quality_score is their mean, or the higher of
\* that mean and the model's own aggregate when the model supplied one.
C32_HigherRetained ==
    (/\ state.quality_review.kind = "scored"
     /\ \A i \in 1..NumDimensions :
           state.quality_review.premium_quality_scores[i] # Absent)
      => LET review == state.quality_review
             mean == SuppliedMean(review)
         IN RatEq(review.overall_quality_score,
                  IF review.reported = Absent THEN mean
                  ELSE RatMax(Rat(review.reported, 1), mean))

\* C32 amended: the stored overall_quality_score is the mean of the supplied
\* dimension scores, whatever aggregate the model reported; the model's
\* aggregate is kept only when no dimension score was supplied, and 8.5 when
\* there is neither.
C32_MeanRetained ==
    (state.quality_review.kind = "scored") =>
        LET review == state.quality_review
            present == FilterSeq(review.premium_quality_scores, Absent)
        IN IF present # <<>>
           THEN RatEq(review.overall_quality_score, SuppliedMean(review))
           ELSE IF review.reported \notin {Absent, 0}
           THEN review.overall_quality_score = Rat(review.reported, 1)
           ELSE review.overall_quality_score = Rat(FallbackOverall, 1)

\* a review whose model reported 9.0 over ten dimension scores of 7.0
C32_Witness ==
    /\ pc = "reflection_orchestrator"
    /\ state.quality_review.kind = "scored"
    /\ state.quality_review.reported = 90
    /\ state.quality_review.premium_quality_scores = AllDims(70)
    /\ RatEq(state.quality_review.overall_quality_score, Rat(70, 1))

MessagingComponents ==
    {"value_proposition", "elevator_pitch", "tagline_options",
     "differentiators"}

ContentComponents ==
    {"website_headlines", "linkedin_posts", "email_templates",
     "sales_one_liners"}

\* the record has all the components, as many of them static as sub-calls
\* failed, the others generated
DegradedBy(record, components, failed) ==
    /\ \A c \in components : record[c] \in {"generated", "fallback"}
    /\ Cardinality({c \in components : record[c] = "fallback"}) = failed

\* C33: in the messaging-synthesis and content-creation stages a failing
\* sub-call replaces its own component only - the stage stores the record of
\* its step-by-step path (not the whole-stage fallback) with all components
\* present, exactly as many static ones as sub-calls failed, and reports
\* completed.
C33_ComponentFailuresAreLocal ==
    [][/\ (pc = "messaging_generator" /\ pc' # pc) =>
            /\ state'.messaging_framework.kind = "framework"
            /\ DegradedBy(state'.messaging_framework, MessagingComponents,
                          faults' - faults)
            /\ reports' = <<"in_progress", "completed">>
       /\ (pc = "content_creator" /\ pc' # pc) =>
            /\ state'.content_assets.kind = "assets"
            /\ DegradedBy(state'.content_assets, ContentComponents,
                          faults' - faults)
            /\ state'.messaging_framework = state.messaging_framework
            /\ reports' = <<"in_progress", "completed">>]_vars

\* one failed sub-call in each of the two stages
C33_Witness ==
    /\ pc = "quality_reviewer"
    /\ state.messaging_framework.elevator_pitch = "fallback"
    /\ state.messaging_framework.value_proposition = "generated"
    /\ state.messaging_framework.tagline_options = "generated"
    /\ state.messaging_framework.differentiators = "generated"
    /\ state.content_assets.email_templates = "fallback"
    /\ state.content_assets.website_headlines = "generated"
    /\ state.content_assets.linkedin_posts = "generated"
    /\ state.content_assets.sales_one_liners = "generated"

\* the stages whose field is produced once and only read afterwards
AnalysisStages ==
    {"business_discovery", "competitor_research", "positioning_analysis",
     "trust_building", "emotional_intelligence", "social_proof_generator"}

\* C34: business_input, quality_threshold and max_reflection_cycles keep the
\* value the state was created with; each of the six analysis fields is
\* written by its own stage only, while still absent, and a finished
\* invocation has written every one of them.
C34_WrittenOnce ==
    /\ [][(pc # "idle") =>
            /\ state'.business_input = state.business_input
            /\ state'.quality_threshold = state.quality_threshold
            /\ state'.max_reflection_cycles = state.max_reflection_cycles]_vars
    /\ [][(pc # "idle") =>
            \A n \in AnalysisStages :
                (StageField(n, state') # StageField(n, state)) =>
                    (pc = n /\ StageField(n, state) = "None")]_vars
    /\ [](\A n \in AnalysisStages : execs[n] <= 1)
    /\ [](pc = "returned" =>
            \A n \in AnalysisStages : StageField(n, state) # "None")

\* C35: timeouts - a Generation Client call that runs into its timeout raises
\* like any failed call, so a stage whose calls all raised has taken its
\* fallback path without an exception leaving it, and the invocation it
\* belongs to ends only after final_assembly has run.
C35_TimeoutTakesFallback ==
    /\ \A n \in all_raised : escaped # n
    /\ (pc = "returned" /\ all_raised # {}) => execs["final_assembly"] = 1

\* the nodes of the reflection loop
ReflectionNodes == LoopStages \cup {"reflection_orchestrator"}

FinishedSessions ==
    {i \in 1..Len(a_sessions) : a_sessions[i].task = "finished"}

\* C37: once the background task of a session has ended the session has a
\* terminal status - completed, with the returned record stored, whenever
\* the results were saved (also when the record is the pipeline's error
\* record), and failed only after an exception inside the task.
C37_TerminalAfterTask ==
    \A i \in FinishedSessions :
        LET row == a_sessions[i]
        IN /\ row.status \in {"completed", "failed"}
           /\ row.saved => (row.status = "completed"
                            /\ row.results = row.returned)
           /\ (row.status = "failed") => ~row.saved

\* C37 (amended): the same, except that the session is left in processing
\* when the status update of the except clause raises in its turn.
C37_TerminalUnlessMarkingFails ==
    \A i \in FinishedSessions :
        LET row == a_sessions[i]
        IN /\ row.status \in {"completed", "failed", "processing"}
           /\ row.saved <=> (row.status = "completed")
           /\ (row.status = "completed") => row.results = row.returned
           /\ (row.status = "failed") <=> (~row.saved /\ row.marked = "ok")
           /\ (row.status = "processing") <=>
                 (~row.saved /\ row.marked = "raise")
           /\ (row.status # "completed") => row.results = "None"

\* the pipeline's error record was saved and the session is completed
C37_Witness ==
    \E i \in FinishedSessions :
        /\ a_sessions[i].returned = "error_record"
        /\ a_sessions[i].status = "completed"
        /\ a_sessions[i].results = "error_record"

\* what the user holds: credits plus free kits not yet used
Balance(user) == user.credits + (FreeTierKitLimit - user.free_kits_used)

\* C38: a task is scheduled only after use_kit_generation reported success
\* for its request, so scheduled tasks never outnumber debits, and nothing
\* that happens afterwards gives the debit back: the balance never grows,
\* and it shrinks by one exactly when a debit succeeds.
C38_DebitNeverRefunded ==
    /\ [](a_scheduled <= a_debits)
    /\ [][/\ Balance(a_user') <= Balance(a_user)
          /\ a_debits' - a_debits = Balance(a_user) - Balance(a_user')
          /\ a_scheduled' - a_scheduled <= a_debits' - a_debits]_vars

\* a debit without a scheduled task, one task saved nothing and one returned
\* the error record: the balance is down by all three
C38_Witness ==
    /\ a_debits = 3
    /\ a_scheduled = 2
    /\ Balance(a_user) = 0
    /\ \E i, j \in FinishedSessions :
         /\ a_sessions[i].status = "failed"
         /\ a_sessions[j].returned = "error_record"

====
